---- MODULE Spec2Model ----
(***************************************************************************)
(* A model of the ray tracer's world resolver (src/src/world.rs), its      *)
(* intersection bookkeeping (src/src/intersection.rs), the shapes          *)
(* (src/src/shape/*.rs), Phong lighting (src/src/materials.rs) and the     *)
(* early sphere registry with its process-wide id counter                  *)
(* (src/src/sphere_registry.rs, src/src/shape.rs).                         *)
(*                                                                         *)
(* Arithmetic.  The code computes in f64.  The model computes exactly, in  *)
(* integers, on the scenes where f64 is exact too: every ray travels along *)
(* the y axis (origin (0,y), direction (0,+1) or (0,-1)), every shape's    *)
(* transform is translation(tx,ty,0) * scaling(s,s,s) with integer tx, ty  *)
(* and s >= 1, and a sphere is either centred on the axis (tx = 0) or      *)
(* missed by the axis (|tx| > s).  A tuple is its (x, y) part: z is 0      *)
(* throughout and w is dropped.  A colour is one channel (the code treats  *)
(* r, g and b alike); material coefficients are whole numbers.  Refractive *)
(* indices are written in tenths (10 is 1.0): the code only copies them.   *)
(* The over-point offset, 50000 * f64::EPSILON in the code, is one grid    *)
(* unit here (OverEpsilon).                                                *)
(*                                                                         *)
(* A Rust panic is the result [tag |-> "panic"]; Option::None is           *)
(* [tag |-> "none"].                                                       *)
(***************************************************************************)
EXTENDS Integers, Sequences, FiniteSets, TLC

\* ------------------------------------------------------------------------
\* Bounds of the model
\* ------------------------------------------------------------------------

\* The most shapes a registry holds.
MaxShapes == 2

\* Bounce budgets handed to colour_at range over -1..MaxBudget and MAX_BOUNCES.
MaxBudget == 2

\* Ray origins and probe points lie at the multiples of 3 within
\* -3*MaxCoord .. 3*MaxCoord.
MaxCoord == 2

\* The most glass spheres registered when prepare_computations is exercised.
MaxGlass == 3

\* hit is applied to lists of at most MaxLen intersections with t in
\* -MaxT..MaxT and object ids in 0..1.
MaxLen == 3

MaxT == 2

\* The most spheres Sphere::new constructs.
MaxSpheres == 3

\* lighting is applied to lights of intensity 1..MaxIntensity.
MaxIntensity == 2

\* Cameras are at most MaxHsize pixels wide and MaxVsize pixels high.
MaxHsize == 3

MaxVsize == 2

\* Colour channels take the values k / Levels, k in -1..Levels + 1.
Levels == 8

\* Largest width and height of a wasm frame (RenderContext, Scene).
MaxWidth == 2

MaxHeight == 2

\* Largest width and height of a Scene.
MaxSceneWidth == 4

MaxSceneHeight == 3

\* ------------------------------------------------------------------------
\* Program constants
\* ------------------------------------------------------------------------

MAX_BOUNCES == 5

\* intersection.rs:113 nudges the over point by 50000 * f64::EPSILON along the
\* normal; on the integer grid the nudge is one unit.
OverEpsilon == 1

\* The refractive index of empty space, 1.0, in tenths (intersection.rs:66-67).
VacuumIndex == 10

\* scene.rs:41: max_ticks
MaxTicks == 100

\* ------------------------------------------------------------------------
\* Tuples (geometry.rs) and rays
\* ------------------------------------------------------------------------

Tup(x, y) == [x |-> x, y |-> y]

TAdd(a, b) == Tup(a.x + b.x, a.y + b.y)

TSub(a, b) == Tup(a.x - b.x, a.y - b.y)

TNeg(a) == Tup(-a.x, -a.y)

TMul(a, k) == Tup(a.x * k, a.y * k)

dot(a, b) == a.x * b.x + a.y * b.y

\* f64::sqrt on the perfect squares the model's scenes produce.
Sqrt(n) == CHOOSE r \in 0..n : r * r = n

\* Exact division (the quotient is whole on the model's scenes).
Quot(a, b) == IF b > 0 THEN a \div b ELSE (-a) \div (-b)

magnitude(v) == Sqrt(v.x * v.x + v.y * v.y)

\* Undefined for the zero vector: the code yields NaN components there.
normalise(v) == Tup(Quot(v.x, magnitude(v)), Quot(v.y, magnitude(v)))

\* reflect(in, normal) = in - normal * 2 * dot(in, normal)
reflect(in, normal) == TSub(in, TMul(normal, 2 * dot(in, normal)))

Ray(origin, direction) == [origin |-> origin, direction |-> direction]

\* Ray::position(t) = origin + direction * t
position(ray, t) == TAdd(ray.origin, TMul(ray.direction, t))

\* A ray along the axis from height y in direction d (+1 or -1).
AxisRay(y, d) == Ray(Tup(0, y), Tup(0, d))

\* ------------------------------------------------------------------------
\* Transforms: p |-> (num * p + off) / den, the translation-and-uniform-
\* scaling matrices.  translation(tx,ty) * scaling(s) is num = s, den = 1,
\* off = (tx,ty).
\* ------------------------------------------------------------------------

Transform(tx, ty, s) == [num |-> s, den |-> 1, off |-> Tup(tx, ty)]

Singular == [tag |-> "panic"]

\* Matrix::inverse: panics when the determinant is 0.
inverse(m) ==
    IF m.num = 0 THEN Singular
    ELSE [num |-> m.den, den |-> m.num, off |-> TNeg(m.off)]

\* Ray::transform by a matrix inv = [num, den, off]: the local ray, kept as
\* numerators over the common denominator inv.den.
transform(ray, inv) ==
    [origin    |-> TAdd(TMul(ray.origin, inv.num), inv.off),
     direction |-> TMul(ray.direction, inv.num),
     den       |-> inv.den]

\* ------------------------------------------------------------------------
\* Materials and shapes
\* ------------------------------------------------------------------------

\* Material::new() with its public fields set; no pattern.
Material(colour, ambient, diffuse, specular, reflective, refractive_index) ==
    [colour |-> colour, ambient |-> ambient, diffuse |-> diffuse,
     specular |-> specular, shininess |-> 2, reflective |-> reflective,
     refractive_index |-> refractive_index, pattern |-> [tag |-> "none"]]

\* Material::set_pattern(Some(pattern))
set_pattern(material, p) ==
    [material EXCEPT !.pattern = [tag |-> "some", value |-> p]]

\* Striped::new(a, b): the identity transform and its inverse.
Striped(a, b) ==
    [a |-> a, b |-> b, transform |-> Transform(0, 0, 1),
     inverse_transform |-> inverse(Transform(0, 0, 1))]

\* Striped::pattern_at on a point kept as numerators over den (den > 0):
\* a where floor(x) is even, b where it is odd.
pattern_at(p, point, den) ==
    IF (point.x \div den) % 2 = 0 THEN p.a ELSE p.b

\* Pattern::pattern_at_shape: the world point is taken into object space by
\* the shape's inverse transform and from there into pattern space by the
\* pattern's.
pattern_at_shape(p, shape, world_point) ==
    LET si == shape.inverse_transform
        pi == p.inverse_transform
        object_point == TAdd(TMul(world_point, si.num), si.off)
        pattern_point == TAdd(TMul(object_point, pi.num), TMul(pi.off, si.den))
    IN  pattern_at(p, pattern_point, si.den * pi.den)

\* Sphere::new / Plane::new followed by set_transform and set_material: the id
\* is 0 until the registry sets it, the inverse is cached.
NewShape(kind, tx, ty, s, material) ==
    [kind |-> kind, id |-> 0,
     transform |-> Transform(tx, ty, s),
     inverse_transform |-> inverse(Transform(tx, ty, s)),
     material |-> material]

\* Sphere::new(): the identity transform, id 0 and Material::new().  lighting
\* reads only its inverse_transform.
SphereDefault == NewShape("sphere", 0, 0, 1, Material(1, 1, 1, 1, 0, 10))

\* ------------------------------------------------------------------------
\* Intersections (intersection.rs)
\* ------------------------------------------------------------------------

\* Intersection::new(t, object): the object's id is read from its data.
Intersection(t, object) == [t |-> t, object_id |-> object.id]

None == [tag |-> "none"]

Panic == [tag |-> "panic"]

Some(v) == [tag |-> "some", value |-> v]

\* Sphere::local_intersect on the local ray lr (numerators over lr.den): a, b, c
\* and the discriminant below are the code's, times lr.den^2 (a, b, c) and
\* lr.den^4 (the discriminant); the common factor cancels in t1 and t2.
SphereLocalIntersect(shape, lr) ==
    LET sphere_to_ray == lr.origin
        a == dot(lr.direction, lr.direction)
        b == 2 * dot(lr.direction, sphere_to_ray)
        c == dot(sphere_to_ray, sphere_to_ray) - lr.den * lr.den
        discriminant == b * b - 4 * a * c
    IN  IF discriminant < 0 THEN << >>
        ELSE LET sqrt_discriminant == Sqrt(discriminant)
                 t1 == Quot(-b - sqrt_discriminant, 2 * a)
                 t2 == Quot(-b + sqrt_discriminant, 2 * a)
             IN  << Intersection(t1, shape), Intersection(t2, shape) >>

\* Plane::local_intersect: nothing when the ray runs along the plane
\* (|direction.y| below 50000 * f64::EPSILON), else the single t.
PlaneLocalIntersect(shape, lr) ==
    IF lr.direction.y = 0 THEN << >>
    ELSE << Intersection(Quot(-lr.origin.y, lr.direction.y), shape) >>

local_intersect(shape, lr) ==
    IF shape.kind = "sphere" THEN SphereLocalIntersect(shape, lr)
    ELSE PlaneLocalIntersect(shape, lr)

\* Shape::intersect: the ray is taken to object space by the cached inverse.
intersect(shape, ray) ==
    local_intersect(shape, transform(ray, shape.inverse_transform))

\* Sphere::local_normal_at is the local point minus the origin; Plane's is the
\* constant (0, 1, 0).
local_normal_at(shape, local_point) ==
    IF shape.kind = "sphere" THEN local_point ELSE Tup(0, 1)

\* Shape::normal_at.  The object point is (num * p + off) / den and the world
\* normal is the transposed inverse applied to the object normal: both carry
\* the positive factor 1/den (num/den), which normalise removes.
normal_at(shape, world_point) ==
    LET inv == shape.inverse_transform
        object_point == TAdd(TMul(world_point, inv.num), inv.off)
        object_normal == local_normal_at(shape, object_point)
        world_normal == TMul(object_normal, inv.num)
    IN  normalise(world_normal)

Range(seq) == { seq[j] : j \in DOMAIN seq }

\* Vec::sort_by on t: a stable sort (an element moves left only past strictly
\* greater ones).
RECURSIVE InsertByT(_, _)
InsertByT(sorted, i) ==
    IF sorted = << >> THEN << i >>
    ELSE IF sorted[Len(sorted)].t > i.t
         THEN Append(InsertByT(SubSeq(sorted, 1, Len(sorted) - 1), i),
                     sorted[Len(sorted)])
         ELSE Append(sorted, i)

RECURSIVE SortByT(_)
SortByT(xs) ==
    IF xs = << >> THEN << >>
    ELSE InsertByT(SortByT(SubSeq(xs, 1, Len(xs) - 1)), xs[Len(xs)])

\* Variant of min_by that keeps the last of several equal minima.
RECURSIVE MinByTKeepsLast(_, _)
MinByTKeepsLast(best, rest) ==
    IF rest = << >> THEN best
    ELSE MinByTKeepsLast(IF best.t >= rest[1].t THEN rest[1] ELSE best,
                         Tail(rest))

\* Iterator::min_by over t: the first of several equal minima is kept.
RECURSIVE MinByT(_, _)
MinByT(best, rest) ==
    IF rest = << >> THEN best
    ELSE MinByT(IF best.t > rest[1].t THEN rest[1] ELSE best, Tail(rest))

\* Variant of the filter of hit that drops t = 0.
StrictlyPositive(i) == i.t > 0

NonNegative(i) == i.t >= 0

\* hit: the lowest non-negative intersection, or None.
hit(xs) ==
    LET candidates == SelectSeq(xs, NonNegative)
    IN  IF candidates = << >> THEN None
        ELSE Some(MinByT(candidates[1], Tail(candidates)))

\* intersection_eq: same object and |a.t - b.t| < 1e-8.
intersection_eq(a, b) == a.object_id = b.object_id /\ a.t = b.t

\* ------------------------------------------------------------------------
\* The shape registry the World owns (ShapeRegistry): shapes in insertion
\* order, each under the fresh sequential id register gave it.
\* ------------------------------------------------------------------------

EmptyRegistry == [shapes |-> << >>, next_id |-> 0]

\* register(shape) -> id: the shape is stored under the next id.
RegistryRegister(reg, shape) ==
    [shapes  |-> Append(reg.shapes, [shape EXCEPT !.id = reg.next_id]),
     next_id |-> reg.next_id + 1]

\* get(id) -> Option<&Shape>
RegistryGet(reg, id) ==
    LET ks == {k \in DOMAIN reg.shapes : reg.shapes[k].id = id}
    IN  IF ks = {} THEN None ELSE Some(reg.shapes[CHOOSE k \in ks : TRUE])

\* iter(): the shapes in insertion order.
RegistryIter(reg) == reg.shapes

\* ------------------------------------------------------------------------
\* prepare_computations (intersection.rs)
\* ------------------------------------------------------------------------

\* containers.last().map_or(1.0, |obj| obj.data().material.refractive_index)
LastIndexOr(containers) ==
    IF containers = << >> THEN VacuumIndex
    ELSE containers[Len(containers)].material.refractive_index

\* Variant of the container update that always pushes.
AlwaysPush(containers, current_object) == Append(containers, current_object)

\* containers.iter().position(|obj| obj.id == current.id) then remove(pos),
\* or push(current) when there is no such position.
UpdateContainers(containers, current_object) ==
    LET found == {pos \in DOMAIN containers :
                    containers[pos].id = current_object.id}
    IN  IF found # {}
        THEN LET pos == CHOOSE q \in found : \A o \in found : q <= o
             IN  SubSeq(containers, 1, pos - 1)
                   \o SubSeq(containers, pos + 1, Len(containers))
        ELSE Append(containers, current_object)

\* The loop over all_intersections from index k on: n1 is read before the
\* containers are updated for the hit, n2 after, and the loop breaks there.
\* registry.get(i.object_id).unwrap() panics on an id the registry lacks.
RECURSIVE ReplayIntersections(_, _, _, _, _)
ReplayIntersections(hit_i, registry_, all_intersections, k, containers) ==
    IF k > Len(all_intersections)
    THEN [tag |-> "ok", n1 |-> VacuumIndex, n2 |-> VacuumIndex]
    ELSE LET i == all_intersections[k]
             current == RegistryGet(registry_, i.object_id)
         IN  IF current.tag = "none" THEN Panic
             ELSE LET updated == UpdateContainers(containers, current.value)
                  IN  IF intersection_eq(i, hit_i)
                      THEN [tag |-> "ok", n1 |-> LastIndexOr(containers),
                            n2 |-> LastIndexOr(updated)]
                      ELSE ReplayIntersections(hit_i, registry_,
                                               all_intersections, k + 1, updated)

\* A variant that sets inside but leaves the normal as the shape gives it.
prepare_computations_keeps_normal(hit_i, ray, registry_, all_intersections) ==
    LET sphere == RegistryGet(registry_, hit_i.object_id)
    IN  IF sphere.tag = "none" THEN None
        ELSE
        LET point == position(ray, hit_i.t)
            eyev == TNeg(ray.direction)
            normal == normal_at(sphere.value, point)
            inside == dot(normal, eyev) < 0
            normalv == normal
            reflectv == reflect(ray.direction, normalv)
            ns == IF all_intersections.tag = "none"
                  THEN [tag |-> "ok", n1 |-> VacuumIndex, n2 |-> VacuumIndex]
                  ELSE ReplayIntersections(hit_i, registry_,
                                           all_intersections.value, 1, << >>)
        IN  IF ns.tag = "panic" THEN Panic
            ELSE Some([t |-> hit_i.t, object |-> sphere.value, point |-> point,
                       over_point |-> TAdd(point, TMul(normalv, OverEpsilon)),
                       eyev |-> eyev, normalv |-> normalv,
                       reflectv |-> reflectv, inside |-> inside,
                       n1 |-> ns.n1, n2 |-> ns.n2])

\* prepare_computations(hit, ray, registry, all_intersections); the last
\* argument is None or Some(list).  The result is None, Some(comps) or a panic.
prepare_computations(hit_i, ray, registry_, all_intersections) ==
    LET sphere == RegistryGet(registry_, hit_i.object_id)
    IN  IF sphere.tag = "none" THEN None
        ELSE
        LET point == position(ray, hit_i.t)
            eyev == TNeg(ray.direction)
            normal == normal_at(sphere.value, point)
            inside == dot(normal, eyev) < 0
            normalv == IF inside THEN TNeg(normal) ELSE normal
            reflectv == reflect(ray.direction, normalv)
            ns == IF all_intersections.tag = "none"
                  THEN [tag |-> "ok", n1 |-> VacuumIndex, n2 |-> VacuumIndex]
                  ELSE ReplayIntersections(hit_i, registry_,
                                           all_intersections.value, 1, << >>)
        IN  IF ns.tag = "panic" THEN Panic
            ELSE Some([t |-> hit_i.t, object |-> sphere.value, point |-> point,
                       over_point |-> TAdd(point, TMul(normalv, OverEpsilon)),
                       eyev |-> eyev, normalv |-> normalv,
                       reflectv |-> reflectv, inside |-> inside,
                       n1 |-> ns.n1, n2 |-> ns.n2])

\* The lines the println! at the head of the loop body writes: one for every
\* intersection the loop reaches, the hit's and the one whose unwrap panics
\* included.
RECURSIVE PrintedUpTo(_, _, _, _)
PrintedUpTo(hit_i, registry_, all_intersections, k) ==
    IF k > Len(all_intersections) THEN Len(all_intersections)
    ELSE IF RegistryGet(registry_, all_intersections[k].object_id).tag = "none"
         THEN k
    ELSE IF intersection_eq(all_intersections[k], hit_i) THEN k
    ELSE PrintedUpTo(hit_i, registry_, all_intersections, k + 1)

PrintedLines(hit_i, registry_, all_intersections) ==
    IF RegistryGet(registry_, hit_i.object_id).tag = "none" THEN 0
    ELSE IF all_intersections.tag = "none" THEN 0
    ELSE PrintedUpTo(hit_i, registry_, all_intersections.value, 1)

\* ------------------------------------------------------------------------
\* lighting (materials.rs)
\* ------------------------------------------------------------------------

Black == 0

\* A variant that lets a shadowed point keep its diffuse and specular terms.
lighting_ignores_shadow(material, object, light_, point, eyev, normalv, in_shadow) ==
    LET colour == IF material.pattern.tag = "some"
                  THEN pattern_at_shape(material.pattern.value, object, point)
                  ELSE material.colour
        effective_colour == colour * light_.intensity
        lightv == normalise(TSub(light_.position, point))
        ambient == effective_colour * material.ambient
        light_dot_normal == dot(lightv, normalv)
        reflect_dot_eye == dot(reflect(TNeg(lightv), normalv), eyev)
        diffuse == IF light_dot_normal < 0 THEN Black
                   ELSE effective_colour * material.diffuse * light_dot_normal
        specular == IF light_dot_normal < 0 THEN Black
                    ELSE IF reflect_dot_eye <= 0 THEN Black
                    ELSE light_.intensity * material.specular
                           * (reflect_dot_eye ^ material.shininess)
    IN  ambient + diffuse + specular

lighting(material, object, light_, point, eyev, normalv, in_shadow) ==
    LET colour == IF material.pattern.tag = "some"
                  THEN pattern_at_shape(material.pattern.value, object, point)
                  ELSE material.colour
        effective_colour == colour * light_.intensity
        lightv == normalise(TSub(light_.position, point))
        ambient == effective_colour * material.ambient
        light_dot_normal == dot(lightv, normalv)
        reflect_dot_eye == dot(reflect(TNeg(lightv), normalv), eyev)
        diffuse == IF light_dot_normal < 0 \/ in_shadow THEN Black
                   ELSE effective_colour * material.diffuse * light_dot_normal
        specular == IF light_dot_normal < 0 \/ in_shadow THEN Black
                    ELSE IF reflect_dot_eye <= 0 THEN Black
                    ELSE light_.intensity * material.specular
                           * (reflect_dot_eye ^ material.shininess)
    IN  ambient + diffuse + specular

\* ------------------------------------------------------------------------
\* State
\* ------------------------------------------------------------------------

VARIABLES
    registry,         \* World.registry
    light,            \* World.light: None or Some(point light)
    stack,            \* the colour_at calls in progress, outermost first
    result,           \* what the colour_at call that ended last returned
    calls,            \* colour_at calls made since the outermost call began
    budget,           \* bounces_remaining of the outermost call
    probe,            \* the last direct call of a World or module function
    counter,          \* SPHERE_ID_COUNTER (shape.rs)
    constructed,      \* spheres built by Sphere::new and not yet registered
    spheres,          \* SphereRegistry.spheres: id -> sphere
    insertion_order,  \* SphereRegistry.insertion_order
    returned,         \* the ids register returned, in call order
    registered,       \* the spheres handed to register, in call order
    shape_data,       \* a shape that is being set up (ShapeData)
    camera,           \* a Camera: transform and inverse_transform
    pattern,          \* a pattern (PatternData)
    panicked,         \* the last set_transform call panicked
    stdout,           \* lines println! wrote since the outermost call began
    render,           \* the Camera::render call: its position and its Canvas
    render_context,   \* the wasm RenderContext (render_context.rs)
    scene             \* the wasm Scene (scene.rs)

worldVars == << registry, light >>

callVars == << stack, result, calls, budget, stdout >>

sphereVars ==
    << counter, constructed, spheres, insertion_order, returned, registered >>

vars == << registry, light, stack, result, calls, budget, probe,
           counter, constructed, spheres, insertion_order, returned,
           registered, shape_data, camera, pattern, panicked, stdout,
           render, render_context, scene >>

objectVars ==
    << shape_data, camera, pattern, panicked, render, render_context, scene >>

\* ------------------------------------------------------------------------
\* World (world.rs)
\* ------------------------------------------------------------------------

World == [registry |-> registry, light |-> light]

Ok(v) == [tag |-> "ok", value |-> v]

RECURSIVE AppendAll(_, _)
AppendAll(shapes, ray) ==
    IF shapes = << >> THEN << >>
    ELSE intersect(shapes[1], ray) \o AppendAll(Tail(shapes), ray)

\* Variant of intersect_world without the sort.
intersect_world_unsorted(w, ray) == AppendAll(RegistryIter(w.registry), ray)

\* intersect_world: every registered shape's intersections, appended in
\* registry order, then sorted by t.
intersect_world(w, ray) == SortByT(AppendAll(RegistryIter(w.registry), ray))

\* Variant of is_shadowed that takes any hit for a shadow, whatever the
\* distance to the light.
is_shadowed_any_hit(w, point) ==
    IF w.light.tag = "none" THEN Panic
    ELSE LET v == TSub(w.light.value.position, point)
             r == Ray(point, normalise(v))
             h == hit(SortByT(AppendAll(RegistryIter(w.registry), r)))
         IN  Ok(h.tag = "some")

\* Variant of is_shadowed that compares the first intersection of the sorted
\* list, negative or not, with the distance.
is_shadowed_first_of_list(w, point) ==
    IF w.light.tag = "none" THEN Panic
    ELSE LET v == TSub(w.light.value.position, point)
             r == Ray(point, normalise(v))
             xs == SortByT(AppendAll(RegistryIter(w.registry), r))
         IN  IF xs # << >> THEN Ok(xs[1].t < magnitude(v)) ELSE Ok(FALSE)

\* is_shadowed: self.light.as_ref().unwrap() panics without a light.
is_shadowed(w, point) ==
    IF w.light.tag = "none" THEN Panic
    ELSE LET v == TSub(w.light.value.position, point)
             distance == magnitude(v)
             direction == normalise(v)
             r == Ray(point, direction)
             xs == intersect_world(w, r)
             h == hit(xs)
         IN  IF h.tag = "some" THEN Ok(h.value.t < distance) ELSE Ok(FALSE)

\* Variant of reflected_colour whose budget test lets a budget of 0 through.
reflected_colour_lets_zero_through(w, comps, bounces_remaining) ==
    IF bounces_remaining < 0 THEN [tag |-> "value", colour |-> Black]
    ELSE IF comps.object.material.reflective = 0
         THEN [tag |-> "value", colour |-> Black]
    ELSE [tag |-> "call",
          ray |-> Ray(comps.over_point, comps.reflectv),
          bounces |-> bounces_remaining - 1,
          reflective |-> comps.object.material.reflective]

\* Variant of reflected_colour that answers an exhausted budget with the
\* material's reflective coefficient instead of black.
reflected_colour_tinted(w, comps, bounces_remaining) ==
    IF bounces_remaining <= 0
    THEN [tag |-> "value", colour |-> comps.object.material.reflective]
    ELSE IF comps.object.material.reflective = 0
         THEN [tag |-> "value", colour |-> Black]
    ELSE [tag |-> "call",
          ray |-> Ray(comps.over_point, comps.reflectv),
          bounces |-> bounces_remaining - 1,
          reflective |-> comps.object.material.reflective]

\* reflected_colour up to its recursive call: black, or the colour_at call it
\* makes and the coefficient it scales the answer by.
reflected_colour(w, comps, bounces_remaining) ==
    IF bounces_remaining <= 0 THEN [tag |-> "value", colour |-> Black]
    ELSE IF comps.object.material.reflective = 0
         THEN [tag |-> "value", colour |-> Black]
    ELSE [tag |-> "call",
          ray |-> Ray(comps.over_point, comps.reflectv),
          bounces |-> bounces_remaining - 1,
          reflective |-> comps.object.material.reflective]

\* shade_hit up to the recursive call inside reflected_colour: a panic, the
\* finished colour surface + black, or the surface colour with the pending call.
shade_hit(w, comps, bounces_remaining) ==
    LET shadowed == is_shadowed(w, comps.over_point)
    IN  IF shadowed.tag = "panic" THEN Panic
        ELSE
        LET surface == IF w.light.tag = "some"
                       THEN lighting(comps.object.material, SphereDefault,
                                     w.light.value,
                                     comps.point, comps.eyev, comps.normalv,
                                     shadowed.value)
                       ELSE Black
            reflected == reflected_colour(w, comps, bounces_remaining)
        IN  IF reflected.tag = "value"
            THEN [tag |-> "value", colour |-> surface + reflected.colour]
            ELSE [tag |-> "call", surface |-> surface,
                  ray |-> reflected.ray, bounces |-> reflected.bounces,
                  reflective |-> reflected.reflective]

\* A variant that shades the first intersection of the sorted list, whatever
\* its t.
colour_at_shades_first(w, ray, bounces_remaining) ==
    LET xs == intersect_world(w, ray)
        h == IF xs = << >> THEN None ELSE Some(xs[1])
    IN  IF h.tag = "none" THEN [tag |-> "value", colour |-> Black]
        ELSE LET comp == prepare_computations(h.value, ray, w.registry, Some(xs))
             IN  IF comp.tag = "panic" THEN Panic
                 ELSE IF comp.tag = "none"
                      THEN [tag |-> "value", colour |-> Black]
                 ELSE shade_hit(w, comp.value, bounces_remaining)

\* colour_at up to the recursive call.
colour_at(w, ray, bounces_remaining) ==
    LET xs == intersect_world(w, ray)
        h == hit(xs)
    IN  IF h.tag = "none" THEN [tag |-> "value", colour |-> Black]
        ELSE LET comp == prepare_computations(h.value, ray, w.registry, Some(xs))
             IN  IF comp.tag = "panic" THEN Panic
                 ELSE IF comp.tag = "none"
                      THEN [tag |-> "value", colour |-> Black]
                 ELSE shade_hit(w, comp.value, bounces_remaining)

\* The lines one colour_at activation writes: those of its
\* prepare_computations call.
colour_at_prints(w, ray) ==
    LET xs == intersect_world(w, ray)
        h == hit(xs)
    IN  IF h.tag = "none" THEN 0
        ELSE PrintedLines(h.value, w.registry, Some(xs))

\* A colour_at activation that wrote lines and whose shade_hit waits for the
\* recursive call: the outcome c of that call is scaled by reflective and
\* added to the surface colour; its panic is passed on.
FinishColourAt(out, lines, c) ==
    IF c.tag = "panic"
    THEN [tag |-> "panic", lines |-> lines + c.lines]
    ELSE [tag |-> "ok", value |-> out.surface + c.value * out.reflective,
          lines |-> lines + c.lines]

\* colour_at run to its end, the recursive calls included: a panic or the
\* colour, with the lines written on the way.
RECURSIVE ColourAtFull(_, _, _)
ColourAtFull(w, ray, bounces_remaining) ==
    LET out == colour_at(w, ray, bounces_remaining)
        lines == colour_at_prints(w, ray)
    IN  CASE out.tag = "panic" -> [tag |-> "panic", lines |-> lines]
          [] out.tag = "value" ->
               [tag |-> "ok", value |-> out.colour, lines |-> lines]
          [] out.tag = "call" ->
               FinishColourAt(out, lines,
                              ColourAtFull(w, out.ray, out.bounces))

\* ------------------------------------------------------------------------
\* Inputs
\* ------------------------------------------------------------------------

\* Material::new() with its public fields set: colour, ambient, diffuse,
\* specular, reflective, refractive index.
Mirror == Material(1, 1, 1, 1, 1, 10)

Matte == Material(2, 1, 1, 0, 0, 10)

Glass(refractive_index) == Material(1, 1, 1, 1, 0, refractive_index)

\* The shapes a scene is assembled from: two fully reflective planes facing
\* each other, a matte sphere around the origin, a matte plane touching that
\* sphere, and a sphere the axis misses.
Palette ==
    { NewShape("plane", 0, -4, 1, Mirror),
      NewShape("plane", 0, 4, 1, Mirror),
      NewShape("sphere", 0, 0, 2, Matte),
      NewShape("plane", 0, 2, 1, Matte),
      NewShape("sphere", 5, 0, 2, Matte) }

\* Three nested glass spheres, arranged as in finding_n1_and_n2_at_various_intersections:
\* A (scaled by 4, index 1.5), B (scaled by 2, moved down 1, index 2.0) and
\* C (scaled by 2, moved up 1, index 2.5).
GlassA == NewShape("sphere", 0, 0, 4, Glass(15))

GlassB == NewShape("sphere", 0, -1, 2, Glass(20))

GlassC == NewShape("sphere", 0, 1, 2, Glass(25))

GlassPalette == { GlassA, GlassB, GlassC }

PointLight(y) == [position |-> Tup(0, y), intensity |-> 1]

\* No light, a light inside the origin sphere, one on the plane at y = 4 and
\* one beyond every shape.
Lights == { None, Some(PointLight(0)), Some(PointLight(4)), Some(PointLight(8)) }

Coords == { 3 * k : k \in -MaxCoord..MaxCoord }

Rays == { AxisRay(y, d) : y \in Coords, d \in {-1, 1} }

Budgets == (-1..MaxBudget) \cup {MAX_BOUNCES}

\* ------------------------------------------------------------------------
\* Initial state: World::new() and an empty SphereRegistry
\* ------------------------------------------------------------------------

NoProbe == [op |-> "none"]

IdleCall ==
    /\ stack = << >>
    /\ result = None
    /\ calls = 0
    /\ budget = 0
    /\ stdout = 0

\* Camera::new(hsize, vsize, _): the identity as transform and as
\* inverse_transform.
CameraNew(hsize, vsize) ==
    [hsize |-> hsize, vsize |-> vsize,
     transform |-> Transform(0, 0, 1), inverse_transform |-> Transform(0, 0, 1)]

NewCamera == CameraNew(1, 1)

\* No render call has been made.
NoRender == [status |-> "idle", pixels |-> << >>, x |-> 0, y |-> 0,
             writes |-> << >>]

\* No RenderContext and no Scene have been constructed.
NoContext == [tag |-> "none"]

NoScene == [tag |-> "none"]

InitObjects ==
    /\ shape_data = NewShape("sphere", 0, 0, 1, Matte)
    /\ camera = NewCamera
    /\ pattern = Striped(1, 0)
    /\ panicked = FALSE
    /\ render = NoRender
    /\ render_context = NoContext
    /\ scene = NoScene

InitSpheres ==
    /\ counter = 0
    /\ constructed = {}
    /\ spheres = << >>
    /\ insertion_order = << >>
    /\ returned = << >>
    /\ registered = << >>

Init ==
    /\ registry = EmptyRegistry
    /\ light = None
    /\ IdleCall
    /\ probe = NoProbe
    /\ InitSpheres
    /\ InitObjects

ResetCall ==
    /\ stack' = << >>
    /\ result' = None
    /\ calls' = 0
    /\ budget' = 0
    /\ stdout' = 0

\* ------------------------------------------------------------------------
\* Assembling the World
\* ------------------------------------------------------------------------

\* World::add_object
add_object(shape) ==
    /\ stack = << >>
    /\ render.status = "idle"
    /\ Len(registry.shapes) < MaxShapes
    /\ registry' = RegistryRegister(registry, shape)
    /\ ResetCall
    /\ probe' = NoProbe
    /\ UNCHANGED << objectVars, light, sphereVars >>

\* world.light = ...
SetLight(l) ==
    /\ stack = << >>
    /\ render.status = "idle"
    /\ light # l
    /\ light' = l
    /\ ResetCall
    /\ probe' = NoProbe
    /\ UNCHANGED << objectVars, registry, sphereVars >>

\* ------------------------------------------------------------------------
\* colour_at, one step per call and per return
\* ------------------------------------------------------------------------

Frame(ray, bounces_remaining) ==
    [ray |-> ray, bounces_remaining |-> bounces_remaining, waiting |-> FALSE,
     surface |-> Black, reflective |-> 0]

Top == stack[Len(stack)]

Pop == SubSeq(stack, 1, Len(stack) - 1)

\* No registered surface passes through the light: lighting normalises the
\* vector from the point to the light, the zero vector (NaN in the code) for a
\* point of such a surface.
LightOffSurfaces ==
    light.tag = "some" =>
        \A j \in DOMAIN registry.shapes :
            \A i \in Range(intersect(registry.shapes[j],
                                     Ray(light.value.position, Tup(0, 1)))) :
                i.t # 0

\* A caller (Camera::render with MAX_BOUNCES, or a test) calls colour_at.
ColourAtCall(ray, bounces_remaining) ==
    /\ stack = << >>
    /\ LightOffSurfaces
    /\ stack' = << Frame(ray, bounces_remaining) >>
    /\ result' = None
    /\ calls' = 1
    /\ budget' = bounces_remaining
    /\ stdout' = 0
    /\ probe' = NoProbe
    /\ UNCHANGED << objectVars, worldVars, sphereVars >>

\* The innermost colour_at call runs: it panics (the panic unwinds every
\* caller), returns a colour, or calls colour_at again from reflected_colour.
ColourAtStep ==
    /\ stack # << >>
    /\ ~Top.waiting
    /\ LET out == colour_at(World, Top.ray, Top.bounces_remaining)
       IN  CASE out.tag = "panic" ->
                  /\ stack' = << >>
                  /\ result' = Panic
                  /\ calls' = calls
             [] out.tag = "value" ->
                  /\ stack' = Pop
                  /\ result' = Ok(out.colour)
                  /\ calls' = calls
             [] out.tag = "call" ->
                  /\ stack' = Append(Pop,
                                [Top EXCEPT !.waiting = TRUE,
                                            !.surface = out.surface,
                                            !.reflective = out.reflective])
                               \o << Frame(out.ray, out.bounces) >>
                  /\ result' = result
                  /\ calls' = calls + 1
    /\ stdout' = stdout + colour_at_prints(World, Top.ray)
    /\ UNCHANGED << objectVars, worldVars, budget, probe, sphereVars >>

\* The recursive call has returned c: reflected_colour returns c * reflective
\* and shade_hit surface + reflected, which colour_at returns.
ColourAtReturn ==
    /\ stack # << >>
    /\ Top.waiting
    /\ result.tag = "ok"
    /\ stack' = Pop
    /\ result' = Ok(Top.surface + result.value * Top.reflective)
    /\ UNCHANGED << objectVars, worldVars, calls, budget, stdout, probe,
                    sphereVars >>

\* ------------------------------------------------------------------------
\* Direct calls on the World
\* ------------------------------------------------------------------------

IntersectWorldCall(ray) ==
    /\ stack = << >>
    /\ probe' = [op |-> "intersect_world", ray |-> ray,
                 out |-> intersect_world(World, ray)]
    /\ ResetCall
    /\ UNCHANGED << objectVars, worldVars, sphereVars >>

\* The point is not the light's own position: the direction to the light is
\* the normalised zero vector there (NaN in the code).
IsShadowedCall(y) ==
    /\ stack = << >>
    /\ light.tag = "some" => light.value.position # Tup(0, y)
    /\ probe' = [op |-> "is_shadowed", point |-> Tup(0, y),
                 out |-> is_shadowed(World, Tup(0, y))]
    /\ ResetCall
    /\ UNCHANGED << objectVars, worldVars, sphereVars >>

Next ==
    \/ \E shape \in Palette : add_object(shape)
    \/ \E l \in Lights : SetLight(l)
    \/ \E ray \in Rays, b \in Budgets : ColourAtCall(ray, b)
    \/ ColourAtStep
    \/ ColourAtReturn
    \/ \E ray \in Rays : IntersectWorldCall(ray)
    \/ \E y \in Coords : IsShadowedCall(y)

Spec == Init /\ [][Next]_vars

\* The guard of ColourAtStep; the step changes stack whenever it is taken, so
\* this is ENABLED <<ColourAtStep>>_vars.
StepEnabled == stack # << >> /\ ~Top.waiting

\* colour_at is ordinary synchronous recursion: a call in progress always
\* takes its next step.  The second conjunct is WF_vars(ColourAtStep) with its
\* enabling condition written out.
FairSpec ==
    /\ Spec
    /\ WF_vars(ColourAtReturn)
    /\ ([]<>(~StepEnabled) \/ []<><<ColourAtStep>>_vars)

\* ------------------------------------------------------------------------
\* prepare_computations called directly, on a registry of glass spheres
\* ------------------------------------------------------------------------

AddGlass(shape) ==
    /\ Len(registry.shapes) < MaxGlass
    /\ registry' = RegistryRegister(registry, shape)
    /\ probe' = NoProbe
    /\ ResetCall
    /\ UNCHANGED << objectVars, light, sphereVars >>

\* An id no shape of the registry has.
DanglingId == registry.next_id

\* The caller hands prepare_computations the k-th of the ray's intersections
\* and, when with_list, the whole list; when bad > 0 the bad-th intersection
\* refers to a shape that is not in the registry.  probe records one call per
\* assembled registry; the function reads nothing a previous call wrote.
PrepareCall(ray, k, bad, with_list) ==
    LET xs0 == intersect_world(World, ray)
    IN  /\ probe = NoProbe
        /\ k \in 1..Len(xs0)
        /\ bad \in 0..Len(xs0)
        /\ LET xs == [j \in 1..Len(xs0) |->
                        IF j = bad THEN [xs0[j] EXCEPT !.object_id = DanglingId]
                        ELSE xs0[j]]
               all == IF with_list THEN Some(xs) ELSE None
           IN  /\ probe' = [op |-> "prepare_computations", ray |-> ray,
                         hit_i |-> xs[k], k |-> k, bad |-> bad, all |-> all,
                         out |-> prepare_computations(xs[k], ray, registry, all)]
               /\ stdout' = PrintedLines(xs[k], registry, all)
        /\ UNCHANGED << objectVars, worldVars, stack, result, calls, budget,
                        sphereVars >>

NextPrepare ==
    \/ \E shape \in GlassPalette : AddGlass(shape)
    \/ \E ray \in Rays, k \in 1..(2 * MaxGlass), bad \in 0..(2 * MaxGlass),
          with_list \in BOOLEAN : PrepareCall(ray, k, bad, with_list)

SpecPrepare == Init /\ [][NextPrepare]_vars

\* ------------------------------------------------------------------------
\* hit called directly, on any list of intersections
\* ------------------------------------------------------------------------

HitTs == -MaxT..MaxT

HitItems == [t : HitTs, object_id : 0..1]

HitLists == UNION { [1..n -> HitItems] : n \in 0..MaxLen }

InitHit ==
    /\ registry = EmptyRegistry
    /\ light = None
    /\ IdleCall
    /\ probe \in { [op |-> "hit_input", xs |-> xs] : xs \in HitLists }
    /\ InitSpheres
    /\ InitObjects

HitCall ==
    /\ probe.op = "hit_input"
    /\ probe' = [op |-> "hit", xs |-> probe.xs, out |-> hit(probe.xs)]
    /\ UNCHANGED << objectVars, worldVars, callVars, sphereVars >>

NextHit == HitCall

SpecHit == InitHit /\ [][NextHit]_vars

\* ------------------------------------------------------------------------
\* The early SphereRegistry (sphere_registry.rs) and the process-wide
\* SPHERE_ID_COUNTER (shape.rs)
\* ------------------------------------------------------------------------

\* Sphere::new: the id is SPHERE_ID_COUNTER.fetch_add(1); the counter stays
\* far below the u32 range within MaxSpheres constructions.  serial tells two
\* sphere objects apart; the code has no such field.
SphereNew ==
    /\ Len(returned) + Cardinality(constructed) < MaxSpheres
    /\ constructed' = constructed \cup
         { [id |-> counter,
            serial |-> Cardinality(constructed) + Len(returned)] }
    /\ counter' = counter + 1
    /\ UNCHANGED << objectVars, worldVars, callVars, probe, spheres, insertion_order,
                    returned, registered >>

\* reset_sphere_counter
reset_sphere_counter ==
    /\ counter # 0
    /\ counter' = 0
    /\ UNCHANGED << objectVars, worldVars, callVars, probe, constructed, spheres,
                    insertion_order, returned, registered >>

\* HashMap::insert: the entry under the key is replaced.
MapInsert(map, key, value) ==
    [k \in (DOMAIN map) \cup {key} |-> IF k = key THEN value ELSE map[k]]

\* SphereRegistry::register
register(sphere) ==
    /\ sphere \in constructed
    /\ LET id == sphere.id
       IN  /\ spheres' = MapInsert(spheres, id, sphere)
           /\ insertion_order' = Append(insertion_order, id)
           /\ returned' = Append(returned, id)
    /\ registered' = Append(registered, sphere)
    /\ constructed' = constructed \ {sphere}
    /\ UNCHANGED << objectVars, worldVars, callVars, probe, counter >>

\* SphereRegistry::get
SphereRegistryGet(id) ==
    IF id \in DOMAIN spheres THEN Some(spheres[id]) ELSE None

\* SphereRegistry::get_by_index (0-based)
get_by_index(index) ==
    IF index + 1 \in DOMAIN insertion_order
    THEN SphereRegistryGet(insertion_order[index + 1])
    ELSE None

\* SphereRegistry::iter: insertion_order, each id looked up in the map, an
\* id the map lacks skipped.
SphereRegistryIter ==
    LET found == SelectSeq(insertion_order, LAMBDA id : id \in DOMAIN spheres)
    IN  [j \in DOMAIN found |-> spheres[found[j]]]

NextRegistry ==
    \/ SphereNew
    \/ reset_sphere_counter
    \/ \E sphere \in constructed : register(sphere)

SpecRegistry == Init /\ [][NextRegistry]_vars

\* Sphere::clone (derived): another sphere object with the same data, the id
\* included.
SphereClone(sphere) ==
    /\ Len(returned) + Cardinality(constructed) < MaxSpheres
    /\ constructed' = constructed \cup
         { [sphere EXCEPT !.serial = Cardinality(constructed) + Len(returned)] }
    /\ UNCHANGED << objectVars, worldVars, callVars, probe, counter, spheres,
                    insertion_order, returned, registered >>

\* SphereRegistry::len
SphereRegistryLen == Cardinality(DOMAIN spheres)

\* registry.get_mut(key) (or get_by_index_mut) and ShapeData::set_id(id) on
\* the sphere it lends: the sphere stored under key carries the new id.
set_id(key, id) ==
    /\ key \in DOMAIN spheres
    /\ spheres[key].id # id
    /\ spheres' = [spheres EXCEPT ![key].id = id]
    /\ registered' = [j \in DOMAIN registered |->
                        IF registered[j].serial = spheres[key].serial
                        THEN [registered[j] EXCEPT !.id = id]
                        ELSE registered[j]]
    /\ UNCHANGED << objectVars, worldVars, callVars, probe, counter,
                    constructed, insertion_order, returned >>

\* One registry, its spheres constructed, cloned, registered and renamed; the
\* process-wide counter is never reset.
NextOneRegistry ==
    \/ SphereNew
    \/ \E sphere \in constructed \cup Range(registered) : SphereClone(sphere)
    \/ \E sphere \in constructed : register(sphere)
    \/ \E key, id \in 0..MaxSpheres : set_id(key, id)

SpecOneRegistry == Init /\ [][NextOneRegistry]_vars


\* ------------------------------------------------------------------------
\* set_transform on a shape, a camera and a pattern
\* ------------------------------------------------------------------------

\* Matrix::determinant of translation(tx,ty) * scaling(s): the product of the
\* diagonal, a power of s.
determinant(m) == m.num * m.num * m.num

\* The matrices handed to set_transform: translations along the axis times
\* scalings, the scaling by 0 (determinant 0) among them.
TransformInputs == { Transform(0, ty, s) : ty \in {-1, 0, 1}, s \in {0, 1, 2} }

\* Variant that stores the transform before it asks for the inverse.
SetTransformStoresFirst(data, m) ==
    IF inverse(m) = Singular THEN Ok([data EXCEPT !.transform = m])
    ELSE Ok([data EXCEPT !.inverse_transform = inverse(m), !.transform = m])

\* Variant that leaves the cached inverse as it was.
SetTransformKeepsInverse(data, m) ==
    IF inverse(m) = Singular THEN Panic
    ELSE Ok([data EXCEPT !.transform = m])

\* Camera::set_transform and Pattern::set_transform: transform.inverse() is
\* evaluated first and panics on a determinant of 0, before either field is
\* assigned.
SetTransformOf(data, m) ==
    IF inverse(m) = Singular THEN Panic
    ELSE Ok([data EXCEPT !.inverse_transform = inverse(m), !.transform = m])

\* Shape::set_transform (shape/shape.rs), the same two assignments.
ShapeSetTransform(data, m) ==
    IF inverse(m) = Singular THEN Panic
    ELSE Ok([data EXCEPT !.inverse_transform = inverse(m), !.transform = m])

\* A set_transform call on one of the three objects; a panic ends the program.
SetTransformCall(target, m) ==
    /\ ~panicked
    /\ LET before == CASE target = "shape" -> shape_data
                       [] target = "camera" -> camera
                       [] target = "pattern" -> pattern
           out == IF target = "shape" THEN ShapeSetTransform(before, m)
                  ELSE SetTransformOf(before, m)
           after == IF out.tag = "panic" THEN before ELSE out.value
       IN  /\ panicked' = (out.tag = "panic")
           /\ shape_data' = IF target = "shape" THEN after ELSE shape_data
           /\ camera' = IF target = "camera" THEN after ELSE camera
           /\ pattern' = IF target = "pattern" THEN after ELSE pattern
           /\ probe' = [op |-> "set_transform", target |-> target, m |-> m,
                        before |-> before]
    /\ UNCHANGED << worldVars, callVars, sphereVars, render, render_context,
                    scene >>

\* Shape::set_transform
set_transform(m) == SetTransformCall("shape", m)

\* Camera::set_transform
CameraSetTransform(m) == SetTransformCall("camera", m)

\* Pattern::set_transform
PatternSetTransform(m) == SetTransformCall("pattern", m)

\* Sphere::new() or Plane::new(), a Camera and a Striped pattern.
InitTransform ==
    /\ registry = EmptyRegistry
    /\ light = None
    /\ IdleCall
    /\ probe = NoProbe
    /\ InitSpheres
    /\ shape_data \in { NewShape("sphere", 0, 0, 1, Matte),
                        NewShape("plane", 0, 0, 1, Matte) }
    /\ camera = NewCamera
    /\ pattern = Striped(1, 0)
    /\ panicked = FALSE
    /\ render = NoRender
    /\ render_context = NoContext
    /\ scene = NoScene

NextTransform ==
    \/ \E m \in TransformInputs : set_transform(m)
    \/ \E m \in TransformInputs : CameraSetTransform(m)
    \/ \E m \in TransformInputs : PatternSetTransform(m)

SpecTransform == InitTransform /\ [][NextTransform]_vars

\* Striped::stripe_at_object: as pattern_at_shape, with the inverse of the
\* stored transform computed on the spot (a panic on a determinant of 0).
stripe_at_object(p, object, world_point) ==
    IF inverse(p.transform) = Singular THEN Panic
    ELSE Ok(pattern_at_shape([p EXCEPT !.inverse_transform = inverse(p.transform)],
                             object, world_point))

\* Striped::set_pattern_transform: the transform alone is assigned.
set_pattern_transform(m) ==
    /\ ~panicked
    /\ pattern' = [pattern EXCEPT !.transform = m]
    /\ probe' = [op |-> "set_pattern_transform", target |-> "pattern",
                 m |-> m, before |-> pattern]
    /\ UNCHANGED << worldVars, callVars, sphereVars, shape_data, camera,
                    panicked, render, render_context, scene >>

\* The matrices handed to a pattern: those above and a translation across
\* the stripes.
PatternTransformInputs == TransformInputs \cup { Transform(1, 0, 1) }

\* A Striped pattern and its two transform setters.
NextPatternTransform ==
    \/ \E m \in PatternTransformInputs : PatternSetTransform(m)
    \/ \E m \in PatternTransformInputs : set_pattern_transform(m)

SpecPatternTransform == InitTransform /\ [][NextPatternTransform]_vars

\* ------------------------------------------------------------------------
\* lighting as a function of its arguments (materials.rs)
\* ------------------------------------------------------------------------

Shiny == Material(2, 1, 2, 3, 0, 10)

\* The four unit vectors along the axes.
Units == { Tup(0, 1), Tup(0, -1), Tup(1, 0), Tup(-1, 0) }

LightingMaterials ==
    { Matte, Mirror, Shiny, set_pattern(Shiny, Striped(3, 1)) }

LightingObjects == { SphereDefault, NewShape("plane", 1, 0, 1, Matte) }

\* The light stands two units from the point, in the direction toward.
InitLighting ==
    /\ registry = EmptyRegistry
    /\ light = None
    /\ IdleCall
    /\ InitSpheres
    /\ InitObjects
    /\ \E material \in LightingMaterials, object \in LightingObjects,
          toward \in Units, intensity \in 1..MaxIntensity,
          px \in {0, 1}, eyev \in Units, normalv \in Units,
          in_shadow \in BOOLEAN :
          probe = [op |-> "lighting_args", material |-> material,
                   object |-> object, toward |-> toward,
                   light |-> [position |-> TAdd(Tup(px, 0), TMul(toward, 2)),
                              intensity |-> intensity],
                   point |-> Tup(px, 0), eyev |-> eyev, normalv |-> normalv,
                   in_shadow |-> in_shadow]

LightingCall ==
    /\ probe.op = "lighting_args"
    /\ probe' = [op |-> "lighting", args |-> probe,
                 out |-> lighting(probe.material, probe.object, probe.light,
                                  probe.point, probe.eyev, probe.normalv,
                                  probe.in_shadow)]
    /\ UNCHANGED << objectVars, worldVars, callVars, sphereVars >>

NextLighting == LightingCall

SpecLighting == InitLighting /\ [][NextLighting]_vars

\* ------------------------------------------------------------------------
\* shade_hit on patterned surfaces (world.rs, pattern/pattern.rs)
\* ------------------------------------------------------------------------

\* A striped pattern moved px along x: Striped::new(3, 1) and set_transform.
MovedStripes(px) ==
    [a |-> 3, b |-> 1, transform |-> Transform(px, 0, 1),
     inverse_transform |-> inverse(Transform(px, 0, 1))]

\* Striped planes across the axis, some of them moved along x, a plain one
\* and a mirror.
PatternedPalette ==
    { NewShape("plane", tx, ty, 1, set_pattern(Shiny, MovedStripes(px))) :
        tx \in {0, 1}, ty \in {-2, 2}, px \in {0, 1} }
    \cup { NewShape("plane", 0, 2, 1, Shiny),
           NewShape("plane", 0, -2, 1, Mirror) }

\* colour_at's route to shade_hit, stopped there: the hit of the ray is
\* prepared and shade_hit is applied to it.
ShadeHitCall(ray, bounces_remaining) ==
    /\ stack = << >>
    /\ LightOffSurfaces
    /\ LET xs == intersect_world(World, ray)
           h == hit(xs)
       IN  /\ h.tag = "some"
           /\ LET comp == prepare_computations(h.value, ray, registry, Some(xs))
              IN  /\ comp.tag = "some"
                  /\ probe' = [op |-> "shade_hit", ray |-> ray,
                               comps |-> comp.value,
                               bounces_remaining |-> bounces_remaining,
                               out |-> shade_hit(World, comp.value,
                                                 bounces_remaining)]
    /\ stdout' = colour_at_prints(World, ray)
    /\ UNCHANGED << objectVars, worldVars, stack, result, calls, budget,
                    sphereVars >>

NextShade ==
    \/ \E shape \in PatternedPalette : add_object(shape)
    \/ \E l \in Lights : SetLight(l)
    \/ \E ray \in Rays, b \in {0, MAX_BOUNCES} : ShadeHitCall(ray, b)

SpecShade == Init /\ [][NextShade]_vars

\* ------------------------------------------------------------------------
\* Camera::render (camera.rs)
\* ------------------------------------------------------------------------

\* Canvas::new(width, height): width * height black pixels, row after row.
CanvasNew(width, height) == [i \in 1..(width * height) |-> Black]

\* Canvas::write_pixel: ignored outside the canvas.
write_pixel(pixels, width, height, x, y, colour) ==
    IF x < width /\ y < height
    THEN [pixels EXCEPT ![y * width + x + 1] = colour]
    ELSE pixels

\* Camera::ray_for_pixel sends one primary ray through the centre of each
\* pixel.  On the model's axis the pixel column picks the ray's origin and
\* the pixel row its direction, so that no two pixels share a ray.
ray_for_pixel(cam, x, y) ==
    AxisRay(3 * (x - 1), IF y % 2 = 0 THEN 1 ELSE -1)

Cameras == { CameraNew(h, v) : h \in 1..MaxHsize, v \in 1..MaxVsize }

\* The World is assembled first; render borrows it until it returns.
InitRender ==
    /\ registry = EmptyRegistry
    /\ light = None
    /\ IdleCall
    /\ probe = NoProbe
    /\ InitSpheres
    /\ shape_data = NewShape("sphere", 0, 0, 1, Matte)
    /\ camera \in Cameras
    /\ pattern = Striped(1, 0)
    /\ panicked = FALSE
    /\ render = NoRender
    /\ render_context = NoContext
    /\ scene = NoScene

\* camera.render(&world) is entered: the Canvas is allocated.
RenderCall ==
    /\ stack = << >>
    /\ render.status = "idle"
    /\ LightOffSurfaces
    /\ render' = [status |-> "running",
                  pixels |-> CanvasNew(camera.hsize, camera.vsize),
                  x |-> 0, y |-> 0, writes |-> << >>]
    /\ stdout' = 0
    /\ UNCHANGED << shape_data, camera, pattern, panicked, render_context, scene, worldVars, stack,
                    result, calls, budget, probe, sphereVars >>

\* One turn of the inner loop: the pixel's ray, colour_at with MAX_BOUNCES,
\* write_pixel.  A panic in colour_at ends render.
RenderPixel ==
    /\ render.status = "running"
    /\ render.y < camera.vsize
    /\ LET ray == ray_for_pixel(camera, render.x, render.y)
           colour == ColourAtFull(World, ray, MAX_BOUNCES)
           last == render.x + 1 = camera.hsize
       IN  /\ stdout' = stdout + colour.lines
           /\ render' =
                IF colour.tag = "panic"
                THEN [render EXCEPT !.status = "panicked"]
                ELSE [status |-> "running",
                      pixels |-> write_pixel(render.pixels, camera.hsize,
                                             camera.vsize, render.x, render.y,
                                             colour.value),
                      x |-> IF last THEN 0 ELSE render.x + 1,
                      y |-> IF last THEN render.y + 1 ELSE render.y,
                      writes |-> Append(render.writes,
                                        render.y * camera.hsize + render.x)]
    /\ UNCHANGED << shape_data, camera, pattern, panicked, render_context, scene, worldVars, stack,
                    result, calls, budget, probe, sphereVars >>

\* Both loops are done: render returns the image.
RenderReturn ==
    /\ render.status = "running"
    /\ render.y = camera.vsize
    /\ render' = [render EXCEPT !.status = "returned"]
    /\ UNCHANGED << shape_data, camera, pattern, panicked, render_context, scene, worldVars,
                    callVars, probe, sphereVars >>

NextRender ==
    \/ \E shape \in Palette : add_object(shape)
    \/ \E l \in Lights : SetLight(l)
    \/ RenderCall
    \/ RenderPixel
    \/ RenderReturn

SpecRender == InitRender /\ [][NextRender]_vars

\* ------------------------------------------------------------------------
\* Colours to RGBA8 bytes (render_context.rs, bin/main.rs)
\* ------------------------------------------------------------------------

\* A channel value is a whole number of Levels-ths here: k stands for
\* k / Levels.  f64::clamp(0.0, 1.0):
clamp01(k) == IF k < 0 THEN 0 ELSE IF k > Levels THEN Levels ELSE k

\* (v.clamp(0.0, 1.0) * 255.0) as u8: the cast drops the fraction.
to_byte(k) == (clamp01(k) * 255) \div Levels

Rgb(r, g, b) == [r |-> r, g |-> g, b |-> b]

Channels == -1..(Levels + 1)

\* The colours vector of a RenderContext: one pixel of any colour, or two
\* grey pixels.
ColourVectors ==
    { << Rgb(r, g, b) >> : r \in Channels, g \in Channels, b \in Channels }
    \cup { << Rgb(k, k, k), Rgb(l, l, l) >> : k \in Channels, l \in Channels }

InitBuffer ==
    /\ registry = EmptyRegistry
    /\ light = None
    /\ IdleCall
    /\ InitSpheres
    /\ InitObjects
    /\ \E colours \in ColourVectors :
          probe = [op |-> "colours", colours |-> colours,
                   buffer |-> [i \in 1..(4 * Len(colours)) |-> 0]]

\* RenderContext::update_buffer_from_colours; render_tile and the CLI's
\* conversion loop compute the four bytes of a pixel in the same way.
update_buffer_from_colours ==
    /\ probe.op = "colours"
    /\ probe' =
         [op |-> "update_buffer", colours |-> probe.colours,
          buffer |->
            [j \in 1..(4 * Len(probe.colours)) |->
               LET colour == probe.colours[(j - 1) \div 4 + 1]
               IN  CASE (j - 1) % 4 = 0 -> to_byte(colour.r)
                     [] (j - 1) % 4 = 1 -> to_byte(colour.g)
                     [] (j - 1) % 4 = 2 -> to_byte(colour.b)
                     [] (j - 1) % 4 = 3 -> 255]]
    /\ UNCHANGED << objectVars, worldVars, callVars, sphereVars >>

NextBuffer == update_buffer_from_colours

SpecBuffer == InitBuffer /\ [][NextBuffer]_vars

\* ------------------------------------------------------------------------
\* Striped and Checkered pattern_at on the whole f64 range
\* (pattern/striped.rs, pattern/checkered.rs)
\* ------------------------------------------------------------------------

\* floor(x) is a whole number; it is kept in two limbs, hi * Limb + lo with
\* 0 <= lo < Limb, so that values beyond the i32 range can be written.
Limb == 65536

Whole(hi, lo) == [hi |-> hi, lo |-> lo]

\* i32::MAX and i32::MIN in limbs.
I32Max == Whole(32767, Limb - 1)

I32Min == Whole(-32768, 0)

\* `f as i32`: the cast saturates at the ends of the i32 range.
as_i32(v) ==
    IF v.hi > I32Max.hi THEN I32Max
    ELSE IF v.hi < I32Min.hi THEN I32Min
    ELSE v

\* i32 + i32: an overflow panics in a debug build and wraps in a release
\* build; checked tells which build runs.
add_i32(v, w, checked) ==
    LET lo == v.lo + w.lo
        hi == v.hi + w.hi + (lo \div Limb)
    IN  IF hi > I32Max.hi \/ hi < I32Min.hi
        THEN IF checked THEN Panic
             ELSE Ok(Whole(((hi + 32768) % Limb) - 32768, lo % Limb))
        ELSE Ok(Whole(hi, lo % Limb))

\* i32 % 2 == 0
is_even_i32(v) == v.lo % 2 = 0

\* Striped::pattern_at on a point given by the floors of its coordinates.
StripedPatternAt(p, fx, fy, fz) ==
    Ok(IF is_even_i32(as_i32(fx)) THEN p.a ELSE p.b)

\* Checkered::pattern_at
CheckeredPatternAt(p, fx, fy, fz, checked) ==
    LET xy == add_i32(as_i32(fx), as_i32(fy), checked)
    IN  IF xy.tag = "panic" THEN Panic
        ELSE LET sum == add_i32(xy.value, as_i32(fz), checked)
             IN  IF sum.tag = "panic" THEN Panic
                 ELSE Ok(IF is_even_i32(sum.value) THEN p.a ELSE p.b)

\* Floors around zero, at the ends of the i32 range and beyond them.
Floors ==
    { Whole(hi, lo) : hi \in {-32769, -32768, -1, 0, 16384, 32767, 32768},
                      lo \in {0, 1, Limb - 1} }

InitPatternAt ==
    /\ registry = EmptyRegistry
    /\ light = None
    /\ IdleCall
    /\ InitSpheres
    /\ InitObjects
    /\ \E kind \in {"striped", "checkered"}, fx \in Floors, fy \in Floors,
          fz \in Floors, checked \in BOOLEAN :
          probe = [op |-> "point", kind |-> kind, fx |-> fx, fy |-> fy,
                   fz |-> fz, checked |-> checked]

PatternAtCall ==
    /\ probe.op = "point"
    /\ probe' = [op |-> "pattern_at", args |-> probe,
                 out |-> IF probe.kind = "striped"
                         THEN StripedPatternAt(pattern, probe.fx, probe.fy,
                                               probe.fz)
                         ELSE CheckeredPatternAt(pattern, probe.fx, probe.fy,
                                                 probe.fz, probe.checked)]
    /\ UNCHANGED << objectVars, worldVars, callVars, sphereVars >>

NextPatternAt == PatternAtCall

SpecPatternAt == InitPatternAt /\ [][NextPatternAt]_vars

\* ------------------------------------------------------------------------
\* Worlds with coincident surfaces
\* ------------------------------------------------------------------------

\* Surfaces that meet the axis at y = 2 (a mirror plane, a matte plane and the
\* top of a shiny sphere), and the sphere again under another material.
CoincidentPalette ==
    { NewShape("plane", 0, 2, 1, Mirror),
      NewShape("plane", 0, 2, 1, Matte),
      NewShape("sphere", 0, 0, 2, Shiny),
      NewShape("sphere", 0, 0, 2, Glass(10)) }

NextCoincident ==
    \/ \E shape \in CoincidentPalette : add_object(shape)
    \/ \E l \in Lights : SetLight(l)
    \/ \E ray \in Rays, b \in {0, MAX_BOUNCES} : ColourAtCall(ray, b)
    \/ ColourAtStep
    \/ ColourAtReturn
    \/ \E ray \in Rays : IntersectWorldCall(ray)

SpecCoincident == Init /\ [][NextCoincident]_vars

\* ------------------------------------------------------------------------
\* Scene::new and RenderContext::new: the sizes of the arrays
\* (scene.rs, render_context.rs)
\* ------------------------------------------------------------------------

\* The product of two u32 values in full, as top * Limb^2 + hi * Limb + lo;
\* the values are written in limbs as above (hi * Limb + lo).
WideMul(v, w) ==
    LET low == v.lo * w.lo
        mid == v.hi * w.lo + v.lo * w.hi + (low \div Limb)
    IN  [top |-> v.hi * w.hi + (mid \div Limb), hi |-> mid % Limb,
         lo |-> low % Limb]

\* u32 * u32: an overflow panics in a debug build and wraps in a release
\* build.
mul_u32(v, w, checked) ==
    LET full == WideMul(v, w)
    IN  IF full.top # 0 /\ checked THEN Panic
        ELSE Ok(Whole(full.hi, full.lo))

\* Scene::new / RenderContext::new: the lengths of colours (all black) and of
\* buffer (all zero).
SceneNewSizes(width, height, checked) ==
    LET pixel_count == mul_u32(width, height, checked)
    IN  IF pixel_count.tag = "panic" THEN Panic
        ELSE LET buffer_size == mul_u32(pixel_count.value, Whole(0, 4), checked)
             IN  IF buffer_size.tag = "panic" THEN Panic
                 ELSE Ok([colours |-> pixel_count.value,
                          buffer |-> buffer_size.value])

\* Widths and heights: small ones, 2^15, 2^16 and their neighbours.
Sizes == { Whole(hi, lo) : hi \in {0, 1}, lo \in {0, 1, 2, 3, 32768} }

InitSceneNew ==
    /\ registry = EmptyRegistry
    /\ light = None
    /\ IdleCall
    /\ InitSpheres
    /\ InitObjects
    /\ \E width \in Sizes, height \in Sizes, checked \in BOOLEAN :
          probe = [op |-> "sizes", width |-> width, height |-> height,
                   checked |-> checked]

SceneNewCall ==
    /\ probe.op = "sizes"
    /\ probe' = [op |-> "scene_new", args |-> probe,
                 out |-> SceneNewSizes(probe.width, probe.height,
                                       probe.checked)]
    /\ UNCHANGED << objectVars, worldVars, callVars, sphereVars >>

NextSceneNew == SceneNewCall

SpecSceneNew == InitSceneNew /\ [][NextSceneNew]_vars

\* ------------------------------------------------------------------------
\* The wasm RenderContext: render and render_tile (render_context.rs)
\* ------------------------------------------------------------------------

V3(x, y, z) == [x |-> x, y |-> y, z |-> z]

dot3(a, b) == a.x * b.x + a.y * b.y + a.z * b.z

\* Colour::new(0.0, 0.0, 0.0)
TraceBlack == [tag |-> "black"]

\* TraceSphereScene::new: the unit sphere at the origin and the light at
\* (10, 10, -10).
TraceSphereScene == [sphere |-> V3(0, 0, 0), light |-> V3(10, 10, -10)]

\* One byte of a pixel: (c.channel.clamp(0.0, 1.0) * 255.0) as u8, kept as
\* the term of the colour it is taken from.
ChannelByte(c, channel) == [channel |-> channel, of |-> c]

\* The alpha byte, 255, and the byte 0 of vec![0; n].
AlphaByte == [channel |-> "a", of |-> [tag |-> "255"]]

ZeroByte == [channel |-> "none", of |-> [tag |-> "0"]]

PixelBytes(c) ==
    << ChannelByte(c, "r"), ChannelByte(c, "g"), ChannelByte(c, "b"),
       AlphaByte >>

\* RenderContext::new (time and tile_buffer are not read by render or
\* render_tile).
ContextNew(width, height) ==
    [width |-> width, height |-> height,
     colours |-> [i \in 1..(width * height) |-> TraceBlack],
     buffer |-> [i \in 1..(width * height * 4) |-> ZeroByte],
     scene |-> TraceSphereScene]

\* half - pixel_size * k with wall_size = 7.0, pixel_size = wall_size / n and
\* half = wall_size / 2.0: the fraction 7 (n - 2 k) / (2 n).
WallCoordinate(k, n) == [num |-> 7 * (n - 2 * k), den |-> 2 * n]

\* intersect(sphere, ray) and hit for the ray from (0, 0, -10) through the
\* wall point (wx, wy, 10): some intersection has t >= 0.  The quantities are
\* those of the quadratic of the unnormalised ray at the scale of the wall
\* point's denominator; normalising scales t and keeps its sign.
HitsSphere(centre, wx, wy) ==
    LET den == wx.den
        direction == V3(wx.num, wy.num, 20 * den)
        sphere_to_ray == V3(-centre.x * den, -centre.y * den,
                            (-10 - centre.z) * den)
        a == dot3(direction, direction)
        b == 2 * dot3(direction, sphere_to_ray)
        c == dot3(sphere_to_ray, sphere_to_ray) - den * den
        discriminant == b * b - 4 * a * c
    IN  discriminant >= 0 /\ (b <= 0 \/ c <= 0)

\* The colour of the ray through a wall point: what lighting returns for the
\* hit, kept as the term of the sphere, the light and the ray, or black.
TraceColour(scene_, wx, wy) ==
    IF HitsSphere(scene_.sphere, wx, wy)
    THEN [tag |-> "lighting", sphere |-> scene_.sphere, light |-> scene_.light,
          world_x |-> wx, world_y |-> wy]
    ELSE TraceBlack

\* The loops of render from pixel k on (k = y * width + x): a hit assigns
\* colours[pixel_index], a miss leaves it.
RECURSIVE RenderLoop(_, _, _)
RenderLoop(ctx, colours, k) ==
    IF k >= ctx.width * ctx.height THEN colours
    ELSE LET y == k \div ctx.width
             x == k % ctx.width
             world_y == WallCoordinate(y, ctx.height)
             world_x == WallCoordinate(x, ctx.height)
             pixel_index == y * ctx.width + x
             colour == TraceColour(ctx.scene, world_x, world_y)
         IN  RenderLoop(ctx,
                        IF colour = TraceBlack THEN colours
                        ELSE [colours EXCEPT ![pixel_index + 1] = colour],
                        k + 1)

\* RenderContext::update_buffer_from_colours
ContextBuffer(buffer, colours) ==
    [j \in DOMAIN buffer |->
        IF ((j - 1) \div 4) < Len(colours)
        THEN PixelBytes(colours[((j - 1) \div 4) + 1])[((j - 1) % 4) + 1]
        ELSE buffer[j]]

\* RenderContext::render: clear, trace every pixel, fill the buffer.
ContextRender(ctx) ==
    LET cleared == [i \in DOMAIN ctx.colours |-> TraceBlack]
        colours == RenderLoop(ctx, cleared, 0)
    IN  [ctx EXCEPT !.colours = colours,
                    !.buffer = ContextBuffer(ctx.buffer, colours)]

\* Variant of the tile's pixel that traces the ray of the local coordinates.
TilePixelLocal(ctx, tile, local_x, local_y) ==
    TraceColour(ctx.scene, WallCoordinate(local_x, tile.full_height),
                WallCoordinate(local_y, tile.full_height))

\* The colour render_tile computes for the pixel (local_x, local_y) of a tile.
TilePixel(ctx, tile, local_x, local_y) ==
    LET global_y == tile.tile_y + local_y
        world_y == WallCoordinate(global_y, tile.full_height)
        global_x == tile.tile_x + local_x
        world_x == WallCoordinate(global_x, tile.full_height)
    IN  TraceColour(ctx.scene, world_x, world_y)

\* The loops of render_tile from tile pixel k on.
RECURSIVE TileLoop(_, _, _, _)
TileLoop(ctx, tile, tile_buffer, k) ==
    IF k >= tile.tile_width * tile.tile_height THEN tile_buffer
    ELSE LET local_y == k \div tile.tile_width
             local_x == k % tile.tile_width
             colour == TilePixel(ctx, tile, local_x, local_y)
             tile_pixel_index == local_y * tile.tile_width + local_x
             buffer_index == tile_pixel_index * 4
         IN  TileLoop(ctx, tile,
                      [j \in DOMAIN tile_buffer |->
                          IF j - 1 \in buffer_index..(buffer_index + 3)
                          THEN PixelBytes(colour)[j - buffer_index]
                          ELSE tile_buffer[j]],
                      k + 1)

\* RenderContext::render_tile -> Vec<u8>
ContextRenderTile(ctx, tile) ==
    TileLoop(ctx, tile,
             [j \in 1..(tile.tile_width * tile.tile_height * 4) |-> ZeroByte],
             0)

\* Sphere and light positions handed to update_sphere_position and
\* update_light_position.
SpherePositions == { V3(0, 0, 0), V3(0, 0, -20) }

LightPositions == { V3(10, 10, -10), V3(-10, 10, -10) }

\* Tiles of a frame that begin inside it, some of them reaching past its right
\* or lower edge; the tile at the origin also with a full_height that is not
\* the frame's.
Tiles(width, height) ==
    { tile \in [tile_x : 0..(width - 1), tile_y : 0..(height - 1),
                tile_width : 1..width, tile_height : 1..height,
                full_width : {width}, full_height : {height, height + 1}] :
        tile.full_height = height \/ (tile.tile_x = 0 /\ tile.tile_y = 0) }

InitContext ==
    /\ registry = EmptyRegistry
    /\ light = None
    /\ IdleCall
    /\ probe = NoProbe
    /\ InitSpheres
    /\ shape_data = NewShape("sphere", 0, 0, 1, Matte)
    /\ camera = NewCamera
    /\ pattern = Striped(1, 0)
    /\ panicked = FALSE
    /\ render = NoRender
    /\ scene = NoScene
    /\ \E width \in 0..MaxWidth, height \in 0..MaxHeight :
          render_context = ContextNew(width, height)

contextUnchanged ==
    UNCHANGED << worldVars, callVars, sphereVars, shape_data, camera, pattern,
                 panicked, render, scene >>

\* RenderContext::render
ContextRenderCall ==
    /\ render_context' = ContextRender(render_context)
    /\ probe' = [op |-> "render"]
    /\ contextUnchanged

\* RenderContext::render_tile
RenderTileCall(tile) ==
    /\ probe' = [op |-> "render_tile", tile |-> tile, ctx |-> render_context,
                 out |-> ContextRenderTile(render_context, tile)]
    /\ UNCHANGED render_context
    /\ contextUnchanged

\* RenderContext::update_sphere_position
update_sphere_position(p) ==
    /\ render_context.scene.sphere # p
    /\ render_context' = [render_context EXCEPT !.scene.sphere = p]
    /\ probe' = [op |-> "update_sphere_position"]
    /\ contextUnchanged

\* RenderContext::update_light_position
update_light_position(p) ==
    /\ render_context.scene.light # p
    /\ render_context' = [render_context EXCEPT !.scene.light = p]
    /\ probe' = [op |-> "update_light_position"]
    /\ contextUnchanged

NextContext ==
    \/ ContextRenderCall
    \/ \E tile \in Tiles(render_context.width, render_context.height) :
          RenderTileCall(tile)
    \/ \E p \in SpherePositions : update_sphere_position(p)
    \/ \E p \in LightPositions : update_light_position(p)

SpecContext == InitContext /\ [][NextContext]_vars

\* ------------------------------------------------------------------------
\* The wasm Scene: the projectile animation (scene.rs, simulation.rs)
\* ------------------------------------------------------------------------

\* Positions and velocities are whole numbers of thousandths.
Milli == 1000

\* Colour::new(1.0, 0.0, 0.0) and Colour::new(0.0, 0.0, 0.0)
Red == Rgb(Levels, 0, 0)

SceneBlack == Rgb(0, 0, 0)

\* vec[index] = v; an index outside the vector panics in the code and
\* stores nothing.
StoreAt(vec, index, v) ==
    IF index + 1 \in DOMAIN vec THEN [vec EXCEPT ![index + 1] = v] ELSE vec

Touch(array, index) == [array |-> array, index |-> index]

\* Scene::reset_simulation: one projectile at (0.1 width, 0.2 height) with
\* velocity (0.02 width, 0.025 height), gravity (0, -0.25), wind (-0.15, 0).
reset_simulation(s) ==
    [s EXCEPT !.simulation =
                 [pos |-> Tup(100 * s.width, 200 * s.height),
                  vel |-> Tup(20 * s.width, 25 * s.height),
                  gravity |-> Tup(0, -250),
                  wind |-> Tup(-150, 0)],
              !.tick_count = 0]

\* Simulation::tick
tick(sim) ==
    LET vel == TAdd(TAdd(sim.vel, sim.gravity), sim.wind)
    IN  [sim EXCEPT !.vel = vel, !.pos = TAdd(sim.pos, vel)]

\* Scene::new; touched is the set of array positions the last call used.
SceneNew(width, height) ==
    reset_simulation(
        [width |-> width, height |-> height,
         colours |-> [i \in 1..(width * height) |-> SceneBlack],
         buffer |-> [i \in 1..(width * height * 4) |-> 0],
         simulation |-> None, tick_count |-> 0, max_ticks |-> MaxTicks,
         touched |-> {}])

\* The four byte stores of a pixel.
StorePixelBytes(buffer, buffer_index, colour) ==
    StoreAt(StoreAt(StoreAt(StoreAt(buffer, buffer_index, to_byte(colour.r)),
                            buffer_index + 1, to_byte(colour.g)),
                    buffer_index + 2, to_byte(colour.b)),
            buffer_index + 3, 255)

\* Variant of write_pixel without the test of the coordinates.
SceneWritePixelUnchecked(s, x, y, colour) ==
    LET pixel_index == y * s.width + x
        buffer_index == pixel_index * 4
    IN  [s EXCEPT !.colours = StoreAt(s.colours, pixel_index, colour),
                  !.buffer = StorePixelBytes(s.buffer, buffer_index, colour),
                  !.touched = @ \cup { Touch("colours", pixel_index) }
                                \cup { Touch("buffer", buffer_index + k) :
                                         k \in 0..3 }]

\* Scene::write_pixel
SceneWritePixel(s, x, y, colour) ==
    IF x < s.width /\ y < s.height
    THEN LET pixel_index == y * s.width + x
             buffer_index == pixel_index * 4
         IN  [s EXCEPT !.colours = StoreAt(s.colours, pixel_index, colour),
                       !.buffer = StorePixelBytes(s.buffer, buffer_index, colour),
                       !.touched = @ \cup { Touch("colours", pixel_index) }
                                     \cup { Touch("buffer", buffer_index + k) :
                                              k \in 0..3 }]
    ELSE s

\* Scene::get_pixel_colour: the colour and the position it read.
get_pixel_colour(s, x, y) ==
    IF x < s.width /\ y < s.height
    THEN LET pixel_index == y * s.width + x
         IN  [colour |-> IF pixel_index + 1 \in DOMAIN s.colours
                         THEN s.colours[pixel_index + 1] ELSE SceneBlack,
              touched |-> { Touch("colours", pixel_index) }]
    ELSE [colour |-> SceneBlack, touched |-> {}]

\* The clearing loops of render from pixel k on (k = y * width + x).
RECURSIVE ClearLoop(_, _)
ClearLoop(s, k) ==
    IF k >= s.width * s.height THEN s
    ELSE LET y == k \div s.width
             x == k % s.width
             pixel_index == y * s.width + x
         IN  ClearLoop([s EXCEPT !.colours = StoreAt(s.colours, pixel_index,
                                                     SceneBlack),
                                 !.touched = @ \cup
                                     { Touch("colours", pixel_index) }],
                       k + 1)

\* The loops that draw the 5x5 dot at (x, y), from their k-th turn on
\* (k = 5 dy + dx).
RECURSIVE DotLoop(_, _, _, _)
DotLoop(s, x, y, k) ==
    IF k >= 25 THEN s
    ELSE LET dy == k \div 5
             dx == k % 5
             px == x + dx
             py == y + dy
         IN  DotLoop(IF px < s.width /\ py < s.height
                     THEN SceneWritePixel(s, px, py, Red) ELSE s,
                     x, y, k + 1)

\* Scene::update_buffer_from_colours from colour i on.
RECURSIVE SceneUpdateBuffer(_, _)
SceneUpdateBuffer(s, i) ==
    IF i >= Len(s.colours) THEN s
    ELSE LET buffer_index == i * 4
         IN  SceneUpdateBuffer(
                 [s EXCEPT !.buffer = StorePixelBytes(s.buffer, buffer_index,
                                                      s.colours[i + 1]),
                           !.touched = @ \cup { Touch("buffer", buffer_index + k) :
                                                  k \in 0..3 }],
                 i + 1)

\* The projectile is drawn if it is inside the viewport: x = pos.x as u32,
\* y = (height - pos.y) as u32.
DrawProjectile(s) ==
    LET pos == s.simulation.pos
    IN  IF /\ pos.x >= 0
           /\ pos.x < s.width * Milli
           /\ pos.y >= 0
           /\ pos.y < s.height * Milli
        THEN DotLoop(s, pos.x \div Milli,
                     (s.height * Milli - pos.y) \div Milli, 0)
        ELSE s

\* Variant of the simulation step that still ticks at tick_count = max_ticks.
AdvanceInclusive(s) ==
    IF s.tick_count <= s.max_ticks
    THEN [s EXCEPT !.simulation = tick(s.simulation),
                   !.tick_count = s.tick_count + 1]
    ELSE reset_simulation(s)

\* The simulation step of render.
Advance(s) ==
    IF s.tick_count < s.max_ticks
    THEN [s EXCEPT !.simulation = tick(s.simulation),
                   !.tick_count = s.tick_count + 1]
    ELSE reset_simulation(s)

\* Scene::render
SceneRender(s) ==
    SceneUpdateBuffer(
        DrawProjectile(Advance(ClearLoop([s EXCEPT !.touched = {}], 0))), 0)

\* The coordinates handed to write_pixel and get_pixel_colour: a corner of
\* the frame and pixels just past its right and lower edges.
PixelCoordinates(s) ==
    { << 0, 0 >>, << s.width, 0 >>, << 0, s.height >>,
      << s.width, s.height >> }

InitScene ==
    /\ registry = EmptyRegistry
    /\ light = None
    /\ IdleCall
    /\ probe = NoProbe
    /\ InitSpheres
    /\ shape_data = NewShape("sphere", 0, 0, 1, Matte)
    /\ camera = NewCamera
    /\ pattern = Striped(1, 0)
    /\ panicked = FALSE
    /\ render = NoRender
    /\ render_context = NoContext
    /\ \E width \in 0..MaxSceneWidth, height \in 0..MaxSceneHeight :
          scene = SceneNew(width, height)

sceneUnchanged ==
    UNCHANGED << worldVars, callVars, sphereVars, shape_data, camera, pattern,
                 panicked, render, render_context >>

\* Scene::render(dt)
SceneRenderCall ==
    /\ scene' = SceneRender(scene)
    /\ probe' = [op |-> "render", before |-> scene]
    /\ sceneUnchanged

\* Scene::reset
SceneResetCall ==
    /\ scene.tick_count # 0
    /\ scene' = reset_simulation(scene)
    /\ probe' = [op |-> "reset", before |-> scene]
    /\ sceneUnchanged

\* Scene::write_pixel(x, y, red)
WritePixelCall(x, y) ==
    /\ scene' = SceneWritePixel([scene EXCEPT !.touched = {}], x, y, Red)
    /\ probe' = [op |-> "write_pixel", before |-> scene, x |-> x, y |-> y]
    /\ sceneUnchanged

\* Scene::get_pixel_colour(x, y)
GetPixelColourCall(x, y) ==
    /\ scene' = [scene EXCEPT !.touched = get_pixel_colour(scene, x, y).touched]
    /\ probe' = [op |-> "get_pixel_colour", before |-> scene, x |-> x,
                 y |-> y, out |-> get_pixel_colour(scene, x, y).colour]
    /\ sceneUnchanged

NextScene ==
    \/ SceneRenderCall
    \/ SceneResetCall
    \/ \E xy \in PixelCoordinates(scene) : WritePixelCall(xy[1], xy[2])
    \/ \E xy \in PixelCoordinates(scene) : GetPixelColourCall(xy[1], xy[2])

SpecScene == InitScene /\ [][NextScene]_vars

\* ------------------------------------------------------------------------
\* Properties
\* ------------------------------------------------------------------------

Max(a, b) == IF a >= b THEN a ELSE b

\* The registered shapes are all fully reflective, and there are two of them.
TwoMirrors ==
    /\ Len(registry.shapes) = 2
    /\ \A j \in DOMAIN registry.shapes : registry.shapes[j].material = Mirror

\* C1: colour_at(ray, b) terminates, the chain of colour_at calls it causes
\* has at most max(b,0)+1 calls, and at most 6 with the budget MAX_BOUNCES.
C1_CallsBounded ==
    /\ [](/\ calls <= Max(budget, 0) + 1
          /\ Len(stack) <= calls
          /\ (budget = MAX_BOUNCES => calls <= 6))
    /\ ((stack # << >>) ~> (stack = << >>))

\* A ray between two facing mirrors used its whole budget MAX_BOUNCES and
\* the outermost call returned a colour.
C1_Witness ==
    /\ TwoMirrors
    /\ stack = << >>
    /\ result.tag = "ok"
    /\ budget = MAX_BOUNCES
    /\ calls = MAX_BOUNCES + 1

\* What the running colour_at call hands to reflected_colour, when it gets
\* that far: Some(comps) or None.
TopComps ==
    LET h == hit(intersect_world(World, Top.ray))
    IN  IF h.tag = "none" THEN None
        ELSE prepare_computations(h.value, Top.ray, registry,
                                  Some(intersect_world(World, Top.ray)))

\* C2: with bounces_remaining <= 0 reflected_colour returns exactly black,
\* whatever the material, and the step makes no further colour_at call.
C2_ExhaustedBudgetIsBlack ==
    /\ [](stack # << >> /\ ~Top.waiting /\ Top.bounces_remaining <= 0
             /\ TopComps.tag = "some"
          => reflected_colour(World, TopComps.value, Top.bounces_remaining)
               = [tag |-> "value", colour |-> Black])
    /\ [][stack # << >> /\ ~Top.waiting /\ Top.bounces_remaining <= 0
             /\ ColourAtStep
          => calls' = calls /\ Len(stack') < Len(stack)]_vars

\* A call with an exhausted budget hit a fully reflective shape under a light
\* and returned the lit surface colour alone.
C2_Witness ==
    /\ TwoMirrors
    /\ light.tag = "some"
    /\ stack = << >>
    /\ budget <= 0
    /\ calls = 1
    /\ result.tag = "ok"
    /\ result.value > Black

\* C3: without a light, colour_at returns black for every ray and budget,
\* rays that hit a shape included, and no panic crosses colour_at.
C3_NoLightIsBlack ==
    (light.tag = "none" /\ stack = << >> /\ calls > 0) => result = Ok(Black)

\* C4: an intersection referring to an id the registry lacks, the hit itself
\* or an entry replayed before it, makes prepare_computations return None; it
\* never fails.
C4_DanglingIdIsNone ==
    (/\ probe.op = "prepare_computations"
     /\ probe.all.tag = "some"
     /\ probe.bad \in 1..probe.k)
    => probe.out = None

\* The smallest non-negative t of a list, as a set-level statement.
IsLowestNonNegative(xs, i) ==
    /\ i \in Range(xs)
    /\ i.t >= 0
    /\ \A j \in Range(xs) : j.t >= 0 => i.t <= j.t

\* C5: hit returns an intersection of the list with non-negative t that is at
\* most the t of every other non-negative one, and none exactly when every t
\* is negative or the list is empty.
C5_HitIsLowestNonNegative ==
    probe.op = "hit" =>
        /\ probe.out.tag = "some" => IsLowestNonNegative(probe.xs, probe.out.value)
        /\ probe.out.tag = "none" <=> \A j \in Range(probe.xs) : j.t < 0
        /\ probe.out.tag \in {"some", "none"}

\* hit answered t = 0 on an unsorted list that also holds a negative and a
\* larger t, the larger one in first place.
C5_Witness ==
    /\ probe.op = "hit"
    /\ Len(probe.xs) = MaxLen
    /\ probe.out.tag = "some"
    /\ probe.xs[1].t > probe.out.value.t
    /\ \E j \in Range(probe.xs) : j.t < 0
    /\ probe.out.value.t = 0

\* The ids inside which the ray is after the first j intersections of xs:
\* those it has crossed an odd number of times.
Entered(xs, j) ==
    { id \in { xs[m].object_id : m \in 1..j } :
        Cardinality({ m \in 1..j : xs[m].object_id = id }) % 2 = 1 }

LastCrossing(xs, j, id) ==
    CHOOSE m \in 1..j :
        /\ xs[m].object_id = id
        /\ \A o \in 1..j : xs[o].object_id = id => o <= m

\* The refractive index around the ray after the first j intersections: that
\* of the shape entered last among those not yet left, 1.0 outside them all.
IndexAfter(xs, j) ==
    IF Entered(xs, j) = {} THEN VacuumIndex
    ELSE LET id == CHOOSE a \in Entered(xs, j) :
                     \A b \in Entered(xs, j) :
                         LastCrossing(xs, j, b) <= LastCrossing(xs, j, a)
         IN  RegistryGet(registry, id).value.material.refractive_index

FirstMatch(xs, h) ==
    CHOOSE m \in DOMAIN xs :
        /\ intersection_eq(xs[m], h)
        /\ \A o \in DOMAIN xs : intersection_eq(xs[o], h) => m <= o

\* The registry of finding_n1_and_n2_at_various_intersections.
NestedGlass ==
    registry.shapes = << [GlassA EXCEPT !.id = 0], [GlassB EXCEPT !.id = 1],
                         [GlassC EXCEPT !.id = 2] >>

ReferenceTable ==
    << <<10, 15>>, <<15, 20>>, <<20, 25>>, <<25, 25>>, <<25, 15>>, <<15, 10>> >>

\* C6: n1 and n2 come from replaying the list up to the hit with a containment
\* stack (an object already there is removed, another pushed): n1 is the index
\* of the stack's last element before the hit's own update, n2 the one after,
\* 1.0 for an empty stack; nested glass spheres A, B, C crossed in the order
\* A,B,C,B,C,A give the reference table.
C6_ContainmentIndices ==
    (/\ probe.op = "prepare_computations"
     /\ probe.all.tag = "some"
     /\ probe.out.tag = "some")
    => LET xs == probe.all.value
           m == FirstMatch(xs, probe.hit_i)
       IN  /\ probe.out.value.n1 = IndexAfter(xs, m - 1)
           /\ probe.out.value.n2 = IndexAfter(xs, m)
           /\ (NestedGlass /\ probe.ray = AxisRay(-6, 1) /\ probe.bad = 0)
              => /\ [j \in DOMAIN xs |-> xs[j].object_id] = <<0, 1, 2, 1, 2, 0>>
                 /\ << probe.out.value.n1, probe.out.value.n2 >>
                      = ReferenceTable[probe.k]

\* The fourth intersection of the nested spheres: the ray leaves B inside C.
C6_Witness ==
    /\ NestedGlass
    /\ probe.op = "prepare_computations"
    /\ probe.all.tag = "some"
    /\ probe.bad = 0
    /\ probe.ray = AxisRay(-6, 1)
    /\ probe.k = 4
    /\ probe.out.tag = "some"
    /\ probe.out.value.n1 = 25
    /\ probe.out.value.n2 = 25

Count(seq, x) == Cardinality({ j \in DOMAIN seq : seq[j] = x })

RECURSIVE CountOverShapes(_, _, _)
CountOverShapes(shapes, ray, x) ==
    IF shapes = << >> THEN 0
    ELSE Count(intersect(shapes[1], ray), x)
           + CountOverShapes(Tail(shapes), ray, x)

\* C7: intersect_world returns a permutation of the shapes' intersections,
\* each tagged with its shape's id, in non-decreasing order of t, and leaves
\* the World as it was.
C7_SortedPermutation ==
    /\ [](probe.op = "intersect_world" =>
            LET out == probe.out
                shapes == RegistryIter(registry)
                items == Range(out) \cup
                         UNION { Range(intersect(shapes[j], probe.ray)) :
                                   j \in DOMAIN shapes }
            IN  /\ \A x \in items :
                      Count(out, x) = CountOverShapes(shapes, probe.ray, x)
                /\ \A j \in 1..(Len(out) - 1) : out[j].t <= out[j + 1].t)
    /\ [][(probe' # probe /\ probe'.op = "intersect_world")
            => UNCHANGED worldVars]_vars

\* Three or more intersections that the sort had to reorder.
C7_Witness ==
    /\ probe.op = "intersect_world"
    /\ Len(probe.out) >= 3
    /\ probe.out # AppendAll(RegistryIter(registry), probe.ray)

ShadowDistance(point) == magnitude(TSub(light.value.position, point))

ShadowRay(point) == Ray(point, normalise(TSub(light.value.position, point)))

\* C8, as the specification words it: is_shadowed is true iff some
\* intersection of the shadow ray has t strictly below the distance to the
\* light.
C8_AnyIntersectionBelowDistance ==
    (probe.op = "is_shadowed" /\ probe.out.tag = "ok")
    => (probe.out.value <=>
          \E i \in Range(intersect_world(World, ShadowRay(probe.point))) :
              i.t < ShadowDistance(probe.point))

\* C8: in a World with a light, is_shadowed is true iff some intersection of
\* the shadow ray has a non-negative t strictly below the distance to the
\* light.
C8_NonNegativeBelowDistance ==
    (probe.op = "is_shadowed" /\ probe.out.tag = "ok")
    => (probe.out.value <=>
          \E i \in Range(intersect_world(World, ShadowRay(probe.point))) :
              i.t >= 0 /\ i.t < ShadowDistance(probe.point))

\* is_shadowed answered false although a shape behind the point gives the
\* shadow ray a negative t.
C8_Witness ==
    /\ probe.op = "is_shadowed"
    /\ probe.out = Ok(FALSE)
    /\ \E i \in Range(intersect_world(World, ShadowRay(probe.point))) : i.t < 0

BehindPoint(shape, point) ==
    \A i \in Range(intersect(shape, ShadowRay(point))) : i.t < 0

BeyondLight(shape, point) ==
    \A i \in Range(intersect(shape, ShadowRay(point))) :
        i.t >= 0 => i.t >= ShadowDistance(point)

Between(shape, point) ==
    \E i \in Range(intersect(shape, ShadowRay(point))) :
        i.t >= 0 /\ i.t < ShadowDistance(point)

\* C9: is_shadowed is false when every shape lies behind the point or beyond
\* the light, and true when a shape has a non-negative intersection nearer
\* than the light.
C9_BehindOrBeyondIsUnshadowed ==
    (probe.op = "is_shadowed" /\ probe.out.tag = "ok")
    => LET shapes == Range(RegistryIter(registry))
       IN  /\ (\A sh \in shapes : BehindPoint(sh, probe.point)
                                    \/ BeyondLight(sh, probe.point))
              => probe.out.value = FALSE
           /\ (\E sh \in shapes : Between(sh, probe.point))
              => probe.out.value = TRUE

\* One shape behind the point, another beyond the light, and no shadow.
C9_Witness ==
    /\ probe.op = "is_shadowed"
    /\ probe.out = Ok(FALSE)
    /\ \E a, b \in Range(RegistryIter(registry)) :
          /\ intersect(a, ShadowRay(probe.point)) # << >>
          /\ BehindPoint(a, probe.point)
          /\ ~BehindPoint(b, probe.point)
          /\ BeyondLight(b, probe.point)

\* C10: after any constructions, counter resets and register calls, every
\* register call returned a fresh id, the next in sequence, and the registry
\* holds no two shapes under one id.
C10_FreshSequentialIds ==
    /\ \A i, j \in DOMAIN returned : i < j => returned[i] # returned[j]
    /\ \A i \in 1..(Len(returned) - 1) : returned[i + 1] = returned[i] + 1
    /\ Cardinality(DOMAIN spheres) = Len(returned)

\* C11: after registering s1..sn in that order, iter() yields s1..sn in that
\* order, get_by_index(k) is the (k+1)-th registered shape for k < n and none
\* for k >= n, and get(id) is none for an id never registered.
C11_InsertionOrder ==
    /\ SphereRegistryIter = registered
    /\ \A k \in 0..(MaxSpheres + 1) :
          get_by_index(k) = IF k < Len(registered) THEN Some(registered[k + 1])
                            ELSE None
    /\ \A id \in 0..(MaxSpheres + 1) :
          (\A j \in DOMAIN registered : registered[j].id # id)
          => SphereRegistryGet(id) = None

\* A matrix [num, den, off] applied to a point.
ApplyMatrix(m, p) ==
    Tup(Quot(m.num * p.x + m.off.x, m.den), Quot(m.num * p.y + m.off.y, m.den))

Grid == { Tup(x, y) : x \in -1..1, y \in -1..1 }

\* p lies on the surface the transform m gives a shape of this kind: the
\* circle of radius m.num around m.off, or the line y = m.off.y.
OnSurface(kind, m, p) ==
    IF kind = "sphere"
    THEN dot(TSub(p, m.off), TSub(p, m.off)) = m.num * m.num
    ELSE p.y = m.off.y

\* C12: after construction and after any set_transform calls with invertible
\* matrices the cached inverse_transform is the inverse of the current
\* transform, and intersect and normal_at answer for the transform set last.
C12_InverseIsCached ==
    LET m == shape_data.transform
        top == Tup(m.off.x, m.off.y + (IF shape_data.kind = "sphere"
                                        THEN m.num ELSE 0))
    IN  /\ \A q \in Grid :
              ApplyMatrix(shape_data.inverse_transform, ApplyMatrix(m, q)) = q
        /\ \A ray \in Rays :
              /\ Len(intersect(shape_data, ray))
                   = IF shape_data.kind = "sphere" THEN 2 ELSE 1
              /\ \A i \in Range(intersect(shape_data, ray)) :
                    OnSurface(shape_data.kind, m, position(ray, i.t))
        /\ normal_at(shape_data, top) = Tup(0, 1)

\* The shape's transform was replaced a second time, by a translation and
\* scaling.
C12_Witness ==
    /\ probe.op = "set_transform"
    /\ probe.target = "shape"
    /\ ~panicked
    /\ probe.m = Transform(0, 1, 2)
    /\ shape_data.transform = probe.m
    /\ probe.before.transform \notin { Transform(0, 0, 1), probe.m }

\* C13: the inverse of a matrix with determinant 0 is never returned, and
\* set_transform with such a matrix aborts before it changes the stored
\* transform or the cached inverse.
C13_SingularAborts ==
    /\ [](\A m \in TransformInputs : determinant(m) = 0 => inverse(m) = Singular)
    /\ [][(/\ probe' # probe
           /\ probe'.op = "set_transform"
           /\ determinant(probe'.m) = 0)
          => (panicked' /\ UNCHANGED << shape_data, camera, pattern >>)]_vars

\* A camera whose transform had been set got a matrix of determinant 0.
C13_Witness ==
    /\ panicked
    /\ probe.op = "set_transform"
    /\ probe.target = "camera"
    /\ determinant(probe.m) = 0
    /\ probe.before.transform # Transform(0, 0, 1)
    /\ camera = probe.before
\* The mirror image of the direction to the light in a surface with unit
\* normal n, for axis-parallel unit vectors: the direction itself when it is
\* parallel to n, its opposite when it lies in the surface.
MirrorOfLight(toward, n) == IF dot(toward, n) # 0 THEN toward ELSE TNeg(toward)

SurfaceColour(a) ==
    IF a.material.pattern.tag = "some"
    THEN pattern_at_shape(a.material.pattern.value, a.object, a.point)
    ELSE a.material.colour

AmbientTerm(a) == SurfaceColour(a) * a.light.intensity * a.material.ambient

DiffuseTerm(a) ==
    SurfaceColour(a) * a.light.intensity * a.material.diffuse
        * dot(a.toward, a.normalv)

SpecularTerm(a) ==
    LET r == dot(MirrorOfLight(a.toward, a.normalv), a.eyev)
    IN  IF r > 0 THEN a.light.intensity * a.material.specular * r * r ELSE 0

\* C14: lighting returns exactly the ambient term (effective colour times
\* material.ambient) when the point is in shadow or the light lies behind the
\* surface (light . normal < 0); otherwise it adds the diffuse term, and the
\* specular term only when the reflected light direction . eye is positive.
C14_ShadowOrBehindIsAmbient ==
    probe.op = "lighting" =>
        LET a == probe.args
        IN  IF a.in_shadow \/ dot(a.toward, a.normalv) < 0
            THEN probe.out = AmbientTerm(a)
            ELSE probe.out = AmbientTerm(a) + DiffuseTerm(a) + SpecularTerm(a)

\* A shadowed point whose diffuse and specular terms would both be positive.
C14_Witness ==
    /\ probe.op = "lighting"
    /\ probe.args.in_shadow
    /\ DiffuseTerm(probe.args) > 0
    /\ SpecularTerm(probe.args) > 0
    /\ probe.out = AmbientTerm(probe.args)

\* C15: when shade_hit shades a hit on a patterned material, the surface
\* colour is the pattern evaluated at pattern.inverse_transform *
\* hitShape.inverse_transform * world_point, hitShape being the shape that was
\* hit: shade_hit's colour is what lighting gives for the hit shape.
C15_PatternAtHitShape ==
    (/\ probe.op = "shade_hit"
     /\ probe.out.tag = "value"
     /\ light.tag = "some"
     /\ probe.comps.object.material.pattern.tag = "some")
    => probe.out.colour =
         lighting(probe.comps.object.material, probe.comps.object, light.value,
                  probe.comps.point, probe.comps.eyev, probe.comps.normalv,
                  is_shadowed(World, probe.comps.over_point).value)

\* The framebuffer render should return: pixel y * hsize + x holds
\* colour_at(ray_for_pixel(x, y), MAX_BOUNCES).
RowMajor(n) == [i \in 1..n |-> i - 1]

PixelsAsClaimed ==
    /\ Len(render.pixels) = camera.hsize * camera.vsize
    /\ \A x \in 0..(camera.hsize - 1), y \in 0..(camera.vsize - 1) :
          LET c == ColourAtFull(World, ray_for_pixel(camera, x, y), MAX_BOUNCES)
          IN  /\ c.tag = "ok"
              /\ render.pixels[y * camera.hsize + x + 1] = c.value

\* C16: Camera::render(world) returns a framebuffer of exactly hsize * vsize
\* pixels whose pixel at row-major index y * hsize + x is
\* colour_at(ray_for_pixel(x, y), MAX_BOUNCES); the pixels are visited in
\* row-major order and each is written exactly once.
C16_RenderFillsFramebuffer ==
    /\ render.status # "panicked"
    /\ render.status = "running" => render.writes = RowMajor(Len(render.writes))
    /\ render.status = "returned" =>
          /\ PixelsAsClaimed
          /\ render.writes = RowMajor(camera.hsize * camera.vsize)

\* C17: no step of a colour_at call in progress writes to standard output or
\* changes the World, the Registry or the Camera.
C17_RenderPathIsPure ==
    [][(stack # << >> /\ stack' # stack)
         => (stdout' = stdout /\ UNCHANGED << registry, light, camera >>)]_vars

\* The nearest integer to clamp(k / Levels, 0, 1) * 255 (halves go up, as in
\* f64::round).
NearestByte(k) == (2 * clamp01(k) * 255 + Levels) \div (2 * Levels)

\* C18: every colour channel value v written to an RGBA8 buffer becomes the
\* byte round(clamp(v, 0, 1) * 255), the nearest integer, and the alpha byte
\* of every written pixel is 255.
C18_BytesAreRounded ==
    probe.op = "update_buffer" =>
        \A i \in 1..Len(probe.colours) :
            /\ probe.buffer[4 * i - 3] = NearestByte(probe.colours[i].r)
            /\ probe.buffer[4 * i - 2] = NearestByte(probe.colours[i].g)
            /\ probe.buffer[4 * i - 1] = NearestByte(probe.colours[i].b)
            /\ probe.buffer[4 * i] = 255

\* C19: colour_at(ray, b) returns black whenever the world hit is none (no
\* shape is intersected, or every intersection has negative t), and otherwise
\* what shade_hit gives for prepare_computations of that hit with the full
\* sorted intersection list and the same budget b: shade_hit's panic, its
\* colour, or its pending recursive call.
C19_ColourAtIsShadeHitOfHit ==
    [][(stack # << >> /\ ~Top.waiting /\ stack' # stack) =>
         LET xs == intersect_world(World, Top.ray)
         IN  IF \A j \in 1..Len(xs) : xs[j].t < 0
             THEN stack' = Pop /\ result' = Ok(Black)
             ELSE LET comps == prepare_computations(hit(xs).value, Top.ray,
                                                    registry, Some(xs))
                      sh == shade_hit(World, comps.value,
                                      Top.bounces_remaining)
                  IN  /\ comps.tag = "some"
                      /\ CASE sh.tag = "panic" ->
                                 stack' = << >> /\ result' = Panic
                            [] sh.tag = "value" ->
                                 stack' = Pop /\ result' = Ok(sh.colour)
                            [] sh.tag = "call" ->
                                 /\ Len(stack') = Len(stack) + 1
                                 /\ stack'[Len(stack')]
                                      = Frame(sh.ray, sh.bounces)
                                 /\ stack'[Len(stack)].waiting
                                 /\ stack'[Len(stack)].surface = sh.surface
                                 /\ stack'[Len(stack)].reflective
                                      = sh.reflective]_vars

\* A single colour_at call returned a colour that is not black: its ray hit a
\* lit shape.
C19_Witness ==
    /\ stack = << >>
    /\ calls = 1
    /\ light.tag = "some"
    /\ result.tag = "ok"
    /\ result.value > Black

\* The local colour of a hit: lighting under the World's light, black without
\* one.
LocalColour(comps) ==
    IF light.tag = "some"
    THEN lighting(comps.object.material, SphereDefault, light.value,
                  comps.point, comps.eyev, comps.normalv,
                  is_shadowed(World, comps.over_point).value)
    ELSE Black

\* C20: shade_hit(comps, b) is the local lighting colour plus
\* reflected_colour(comps, b); reflected_colour is black, with no ray cast,
\* when reflective is 0, and with b > 0 and reflective non-zero it casts one
\* ray from over_point along reflectv, calls colour_at with budget b - 1 and
\* multiplies the result by reflective.
C20_LocalPlusReflected ==
    probe.op = "shade_hit" =>
        LET comps == probe.comps
            b == probe.bounces_remaining
            m == comps.object.material
        IN  IF m.reflective = 0 \/ b <= 0
            THEN probe.out = [tag |-> "value",
                              colour |-> LocalColour(comps) + Black]
            ELSE probe.out = [tag |-> "call", surface |-> LocalColour(comps),
                              ray |-> Ray(comps.over_point, comps.reflectv),
                              bounces |-> b - 1,
                              reflective |-> m.reflective]

\* The outward normal of a shape at a point of its surface, from the shape's
\* geometry: away from the centre for a sphere, straight up for a plane.
OutwardNormal(shape, point) ==
    IF shape.kind = "plane" THEN Tup(0, 1)
    ELSE IF point.y > shape.transform.off.y THEN Tup(0, 1) ELSE Tup(0, -1)

\* C21: in every result of prepare_computations normalv . eyev >= 0, eyev
\* being the negated ray direction, and inside is true exactly when the
\* shape's own normal at the hit point has a negative dot product with eyev;
\* normalv is then the negation of that normal, and the normal itself
\* otherwise.
C21_NormalFacesEye ==
    (probe.op = "prepare_computations" /\ probe.out.tag = "some") =>
        LET comps == probe.out.value
            normal == OutwardNormal(comps.object, comps.point)
        IN  /\ comps.eyev = TNeg(probe.ray.direction)
            /\ dot(comps.normalv, comps.eyev) >= 0
            /\ comps.inside <=> (dot(normal, comps.eyev) < 0)
            /\ comps.normalv = IF comps.inside THEN TNeg(normal) ELSE normal

\* A hit from inside a shape: the normal was flipped.
C21_Witness ==
    /\ probe.op = "prepare_computations"
    /\ probe.out.tag = "some"
    /\ probe.out.value.inside
    /\ probe.out.value.normalv
         = TNeg(OutwardNormal(probe.out.value.object, probe.out.value.point))

\* C22: for every point, points with negative coordinates included,
\* Striped.pattern_at is a exactly when floor(x) is even and b otherwise,
\* whatever y and z; Checkered.pattern_at is a exactly when
\* floor(x) + floor(y) + floor(z) is even and b otherwise.
C22_PatternParity ==
    probe.op = "pattern_at" =>
        LET q == probe.args
        IN  IF q.kind = "striped"
            THEN probe.out = Ok(IF q.fx.lo % 2 = 0 THEN pattern.a ELSE pattern.b)
            ELSE probe.out = Ok(IF (q.fx.lo + q.fy.lo + q.fz.lo) % 2 = 0
                                THEN pattern.a ELSE pattern.b)

\* Four times a number written in three limbs.
TimesFour(n) ==
    LET lo == 4 * n.lo
        hi == 4 * n.hi + (lo \div Limb)
    IN  [top |-> 4 * n.top + (hi \div Limb), hi |-> hi % Limb,
         lo |-> lo % Limb]

InThreeLimbs(v) == [top |-> 0, hi |-> v.hi, lo |-> v.lo]

\* C23: for every width and height (u32), Scene::new and RenderContext::new
\* create a colour array of exactly width * height entries and a byte buffer
\* of exactly width * height * 4 bytes, so that the last byte of every pixel
\* of the frame lies inside the buffer.
C23_ArraysCoverFrame ==
    probe.op = "scene_new" =>
        /\ probe.out.tag = "ok"
        /\ InThreeLimbs(probe.out.value.colours)
             = WideMul(probe.args.width, probe.args.height)
        /\ InThreeLimbs(probe.out.value.buffer)
             = TimesFour(WideMul(probe.args.width, probe.args.height))

\* The position in the registry of the shape with this id.
IndexOfId(id) == CHOOSE j \in DOMAIN registry.shapes : registry.shapes[j].id = id

\* The smallest non-negative t at which the ray meets a registered shape.
SmallestT(ray) ==
    LET ts == { i.t : i \in { i \in Range(intersect_world_unsorted(World, ray)) :
                                i.t >= 0 } }
    IN  CHOOSE t \in ts : \A u \in ts : t <= u

\* The shapes that meet the ray at that t, by position in the registry.
MeetingAt(ray, t) ==
    { j \in DOMAIN registry.shapes :
        \E i \in Range(intersect(registry.shapes[j], ray)) : i.t = t }

\* The earliest registered of them, as an intersection.
EarliestAtSmallestT(ray) ==
    LET t == SmallestT(ray)
        j == CHOOSE j \in MeetingAt(ray, t) : \A k \in MeetingAt(ray, t) : j <= k
    IN  [t |-> t, object_id |-> registry.shapes[j].id]

\* C24: intersections that share a t are listed by intersect_world in the
\* order their shapes were registered, hit returns the first of those that
\* share the smallest non-negative t, and colour_at shades the shape of that
\* one, the earliest registered.
C24_EarliestRegisteredIsShaded ==
    /\ [](probe.op = "intersect_world" =>
            \A j, k \in DOMAIN probe.out :
                (j < k /\ probe.out[j].t = probe.out[k].t) =>
                    IndexOfId(probe.out[j].object_id)
                      <= IndexOfId(probe.out[k].object_id))
    /\ [][(stack # << >> /\ ~Top.waiting /\ stack' # stack
           /\ hit(intersect_world(World, Top.ray)).tag = "some") =>
          LET xs == intersect_world(World, Top.ray)
              first == EarliestAtSmallestT(Top.ray)
              comps == prepare_computations(first, Top.ray, registry, Some(xs))
              sh == shade_hit(World, comps.value, Top.bounces_remaining)
          IN  /\ hit(xs).value = first
              /\ comps.tag = "some"
              /\ CASE sh.tag = "panic" -> result' = Panic
                    [] sh.tag = "value" ->
                         stack' = Pop /\ result' = Ok(sh.colour)
                    [] sh.tag = "call" ->
                         /\ stack'[Len(stack')] = Frame(sh.ray, sh.bounces)
                         /\ stack'[Len(stack)].surface = sh.surface
                         /\ stack'[Len(stack)].reflective = sh.reflective]_vars

\* A matte plane and, registered after it, a mirror plane in the same place:
\* the ray that meets both was shaded as the matte plane, without a
\* reflected ray.
C24_Witness ==
    /\ Len(registry.shapes) = 2
    /\ registry.shapes[1].material = Matte
    /\ registry.shapes[2].material = Mirror
    /\ registry.shapes[1].kind = "plane"
    /\ registry.shapes[2].kind = "plane"
    /\ light.tag = "some"
    /\ stack = << >>
    /\ calls = 1
    /\ budget = MAX_BOUNCES
    /\ result.tag = "ok"
    /\ result.value > Black

\* C25: after any sequence of register calls, two shapes with one id among
\* them or not, len() is the number of register calls made and iter() yields
\* each registered shape exactly once.
C25_LenCountsRegisterCalls ==
    /\ SphereRegistryLen = Len(returned)
    /\ Len(SphereRegistryIter) = Len(registered)
    /\ \A j \in DOMAIN registered :
          Cardinality({ k \in DOMAIN SphereRegistryIter :
                          SphereRegistryIter[k] = registered[j] }) = 1

\* C26: every id k for which get(k) is some shape has get(k).id() = k.
C26_IdIsTheKey ==
    \A k \in 0..(MaxSpheres + 1) :
        SphereRegistryGet(k).tag = "some" => SphereRegistryGet(k).value.id = k

\* Points across the stripes.
StripePoints == { Tup(x, 0) : x \in -2..2 }

\* C27: after construction and after any sequence of Pattern::set_transform
\* and Striped::set_pattern_transform calls, the cached inverse_transform is
\* the inverse of the stored transform, and pattern_at_shape and
\* stripe_at_object return the same colour for the same shape and point.
C27_PatternInverseIsCached ==
    ~panicked =>
        /\ pattern.inverse_transform = inverse(pattern.transform)
        /\ \A point \in StripePoints :
              stripe_at_object(pattern, shape_data, point)
                = Ok(pattern_at_shape(pattern, shape_data, point))

\* The tile lies inside the frame.
TileInside(ctx, tile) ==
    /\ tile.tile_x + tile.tile_width <= ctx.width
    /\ tile.tile_y + tile.tile_height <= ctx.height

\* C28: for a tile inside the frame and full_height equal to the context's
\* height, render_tile returns tile_width * tile_height * 4 bytes in which the
\* pixel at local (lx, ly) has the bytes of pixel (tile_x + lx, tile_y + ly) of
\* the full buffer after render, and render_tile changes neither the colour
\* array nor the full buffer.
C28_TileMatchesRender ==
    /\ [](probe.op = "render_tile" /\ TileInside(probe.ctx, probe.tile)
             /\ probe.tile.full_height = probe.ctx.height =>
            LET tile == probe.tile
                full == ContextRender(probe.ctx).buffer
            IN  /\ Len(probe.out) = tile.tile_width * tile.tile_height * 4
                /\ \A lx \in 0..(tile.tile_width - 1),
                      ly \in 0..(tile.tile_height - 1), byte \in 1..4 :
                      probe.out[(ly * tile.tile_width + lx) * 4 + byte]
                        = full[((tile.tile_y + ly) * probe.ctx.width
                                  + tile.tile_x + lx) * 4 + byte])
    /\ [][probe'.op = "render_tile" /\ probe' # probe =>
             /\ render_context'.colours = render_context.colours
             /\ render_context'.buffer = render_context.buffer]_vars

\* A tile off the frame's origin and smaller than the frame was rendered
\* after the full frame; it holds a pixel that hit the sphere and one that
\* missed it.
C28_Witness ==
    /\ probe.op = "render_tile"
    /\ TileInside(probe.ctx, probe.tile)
    /\ probe.tile.full_height = probe.ctx.height
    /\ probe.tile.tile_x > 0
    /\ probe.tile.tile_width * probe.tile.tile_height >= 2
    /\ probe.tile.tile_width * probe.tile.tile_height
         < probe.ctx.width * probe.ctx.height
    /\ probe.ctx.buffer = ContextRender(probe.ctx).buffer
    /\ \E j \in DOMAIN probe.out : probe.out[j] = ChannelByte(TraceBlack, "r")
    /\ \E j \in DOMAIN probe.out : probe.out[j].of.tag = "lighting"

\* The projectile n ticks after a reset, in thousandths: the velocity has
\* lost n times (0.15, 0.25) and the position has gained the sum of the n
\* velocities.
Trajectory(width, height, n) ==
    [pos |-> Tup(100 * width + 20 * width * n - 75 * n * (n + 1),
                 200 * height + 25 * height * n - 125 * n * (n + 1)),
     vel |-> Tup(20 * width - 150 * n, 25 * height - 250 * n)]

\* C29: after any sequence of render and reset calls 0 <= tick_count <=
\* max_ticks = 100 and the projectile is where tick_count ticks take it from
\* the start; a render call with tick_count < max_ticks makes one tick and
\* adds one to tick_count, and a render call with tick_count = max_ticks
\* makes no tick and puts the simulation and tick_count back to the start.
C29_TicksRestartAtMax ==
    /\ scene.max_ticks = 100
    /\ scene.tick_count \in 0..scene.max_ticks
    /\ scene.simulation.pos
         = Trajectory(scene.width, scene.height, scene.tick_count).pos
    /\ scene.simulation.vel
         = Trajectory(scene.width, scene.height, scene.tick_count).vel
    /\ probe.op = "render" =>
          scene.tick_count = IF probe.before.tick_count < 100
                             THEN probe.before.tick_count + 1 ELSE 0
    /\ probe.op = "reset" => scene.tick_count = 0

\* The render call after the hundredth tick restarted the animation.
C29_Witness ==
    /\ probe.op = "render"
    /\ probe.before.tick_count = 100
    /\ scene.tick_count = 0
    /\ scene.simulation.pos # probe.before.simulation.pos

\* The projectile is inside the viewport.
InViewport(s) ==
    /\ s.simulation.pos.x >= 0
    /\ s.simulation.pos.x < s.width * Milli
    /\ s.simulation.pos.y >= 0
    /\ s.simulation.pos.y < s.height * Milli

\* The pixel (px, py) lies in the 5x5 square whose corner is the projectile's
\* pixel, the y axis flipped.
InDot(s, px, py) ==
    LET x == s.simulation.pos.x \div Milli
        y == (s.height * Milli - s.simulation.pos.y) \div Milli
    IN  InViewport(s) /\ px \in x..(x + 4) /\ py \in y..(y + 4)

\* C30: no call uses a position outside the colour array or the byte buffer;
\* render leaves red exactly the pixels of the dot that lie inside the frame
\* and black the others; write_pixel with a coordinate out of range changes
\* nothing and get_pixel_colour returns black for it.
C30_AccessesStayInside ==
    /\ Len(scene.colours) = scene.width * scene.height
    /\ Len(scene.buffer) = scene.width * scene.height * 4
    /\ \A t \in scene.touched :
          /\ t.index >= 0
          /\ t.array = "colours" => t.index < Len(scene.colours)
          /\ t.array = "buffer" => t.index < Len(scene.buffer)
    /\ probe.op = "render" =>
          \A px \in 0..(scene.width - 1), py \in 0..(scene.height - 1) :
              LET pixel_index == py * scene.width + px
                  colour == IF InDot(scene, px, py) THEN Red ELSE SceneBlack
              IN  /\ scene.colours[pixel_index + 1] = colour
                  /\ scene.buffer[pixel_index * 4 + 1] = to_byte(colour.r)
                  /\ scene.buffer[pixel_index * 4 + 2] = 0
                  /\ scene.buffer[pixel_index * 4 + 3] = 0
                  /\ scene.buffer[pixel_index * 4 + 4] = 255
    /\ (probe.op \in {"write_pixel", "get_pixel_colour"}
           /\ (probe.x >= scene.width \/ probe.y >= scene.height)) =>
          /\ scene.colours = probe.before.colours
          /\ scene.buffer = probe.before.buffer
          /\ scene.touched = {}
          /\ probe.op = "get_pixel_colour" => probe.out = SceneBlack

\* render met the projectile inside the viewport at height 0: the flipped y
\* is the frame's height and no pixel of the dot lies inside the frame.
C30_Witness ==
    /\ probe.op = "render"
    /\ InViewport(scene)
    /\ scene.simulation.pos.y = 0
    /\ scene.height > 0
    /\ \A j \in DOMAIN scene.colours : scene.colours[j] = SceneBlack

====
